---- MODULE Spec2Model ----
(***************************************************************************)
(* Banner slider of public/js/script.js (renderBreakingNews): the closure  *)
(* state of one rendered slider, the DOM state it owns (track transform,   *)
(* transition, the 'dragging' class, the transitionend listener, the       *)
(* autoplay interval) and one action per event handler.                    *)
(* Indices are 0-based as in the source; sequences are 1-based, so         *)
(* effectiveSlidesData[k] of the source is EffAt(k) here.                  *)
(***************************************************************************)
EXTENDS Integers, Sequences, FiniteSets, TLC

\* ---------------------------------------------------------------- bounds
MaxSlides == 3          \* slide counts explored: 1..MaxSlides
MaxOvershoot == 1       \* how far displayIndex may run past the clone slots
MaxFeed == 6            \* longest feed handed to renderBreakingNews
MaxRenders == 2         \* calls of renderBreakingNews on one page
MaxCards == 3           \* longest list handed to renderArticleCardList
MaxLoadFeed == 2        \* longest feed the four page loaders are run on
MaxSidebarFeed == 6     \* longest feed the sidebar lists are drawn from

\* ------------------------------------------------------ program constants
DRAG_START_THRESHOLD == 5
SWIPE_ACTION_THRESHOLD_PIXELS == 50
CLICK_TIME_THRESHOLD_MS == 250
MAX_BANNER_SLIDES == 5
BREAKING_WINDOW_HOURS == 6

\* ------------------------------------------------------- event input sets
Widths == {300, 400}                       \* sliderContainer.offsetWidth
DownXs == {100}                            \* clientX of a pointerdown
ClientXs == {50, 51, 94, 95, 100, 150}     \* clientX of a later event
DownTimes == {100}                         \* timeStamp of a pointerdown
Times == {349, 350}                        \* timeStamp of a later event

VARIABLES
    totalOriginalSlides,      \* slidesData.length
    slidesData,               \* the slide set (article ids)
    effectiveSlidesData,      \* slide set with the boundary clones
    containerWidth,           \* sliderContainer.offsetWidth (environment)
    mouseInside,              \* the mouse is over the container (environment)
    hovered,                  \* mouseenter was delivered, mouseleave not yet
    currentLogicalIndex,
    currentDisplayIndex,
    slideWidth,
    trackTransition,          \* sliderTrack.style.transition: "animate" | "none"
    trackTransform,           \* sliderTrack.style.transform, translateX in px
    animating,                \* a CSS transition of the track is running
    transitionendListener,    \* handleTransitionEnd is registered on the track
    dragging,                 \* sliderContainer has class 'dragging'
    autoSlideInterval,        \* "null" | "live" | "cleared" (handle state)
    activeTimers,             \* number of intervals that will still fire
    pointerDownX,
    currentTrackPixelOffset,
    pointerIsDown,
    downTimestamp,
    hasDraggedSignificantly,
    location,                 \* 0, or the article whose link was navigated to
    last,                     \* last handler that ran past its early returns
    loop,                     \* observer of forward advance / completion pairs
    articles,                 \* the feed handed to renderBreakingNews
    renders,                  \* calls of renderBreakingNews so far
    sectionDisplay,           \* section.style.display: "unset" | "none" | "block"
    labelText,                \* "none" | "Breaking" | "Trending"
    trackNodes,               \* children of the slider track (article ids)
    controls,                 \* dots and arrows are in the container
    listenerSets,             \* sets of gesture/hover/resize listeners registered
    stale,                    \* closures of earlier renders, listeners still on
    args,                     \* the function under study and its arguments
    returned,                 \* [done, value]: what the function returned
    promise,                  \* the promise a page loader returned
    response,                 \* how the loader's fetch of the feed settled
    regions,                  \* content of the page regions loaders write
    currentUtterance,         \* the tracked utterance (0: null)
    currentPlayingButton,     \* the tracked TTS button ("null": none)
    ttsButtons,               \* class and disabled state of each TTS button
    synth,                    \* speechSynthesis: paused flag and utterances
    searchInput,              \* searchInput.value
    debounceTimeout,          \* the timer of the debounced input listener
    calls,                    \* calls of showSuggestions and their fetches
    suggestionsContainer,     \* the dropdown: its items and style.display
    retry_count,              \* retry_count of the workflow's push loop
    shell,                    \* where the push step stands and how it exits
    log                       \* what the push step has echoed

svars == <<totalOriginalSlides, slidesData, effectiveSlidesData, containerWidth,
          mouseInside, hovered, currentLogicalIndex, currentDisplayIndex, slideWidth,
          trackTransition, trackTransform, animating, transitionendListener,
          dragging, autoSlideInterval, activeTimers, pointerDownX,
          currentTrackPixelOffset, pointerIsDown, downTimestamp,
          hasDraggedSignificantly, location, last>>

\* What renderBreakingNews reads and leaves in the page besides the slider.
pvars == <<articles, renders, sectionDisplay, labelText, trackNodes, controls,
          listenerSets, stale>>

\* A call of one of the page's pure functions.
qvars == <<args, returned>>

\* A run of one of the page loaders.
lvars == <<promise, response, regions>>

\* Text to speech.
tvars == <<currentUtterance, currentPlayingButton, ttsButtons, synth>>

\* The search box and its suggestions.
gvars == <<searchInput, debounceTimeout, calls, suggestionsContainer>>

\* The push loop of the update workflow.
wvars == <<retry_count, shell, log>>

ovars == <<tvars, gvars, wvars>>

vars == <<svars, loop, pvars, qvars, lvars, ovars>>

consts == <<totalOriginalSlides, slidesData, effectiveSlidesData>>

\* ----------------------------------------------------------- construction
needsCloning == totalOriginalSlides > 1

\* EffectiveOf with the two clones on the wrong ends.
EffectiveOf_swappedClones(sd) ==
    IF Len(sd) > 1 THEN <<sd[1]>> \o sd \o <<sd[Len(sd)]>> ELSE sd

\* effectiveSlidesData = [...slidesData]; unshift(last); push(first)
EffectiveOf(sd) ==
    IF Len(sd) > 1 THEN <<sd[Len(sd)]>> \o sd \o <<sd[1]>> ELSE sd

EffAt(k) == effectiveSlidesData[k + 1]

Abs(x) == IF x < 0 THEN -x ELSE x

\* The mutable slider state as one record, so that a handler is the
\* composition of the functions it calls.
Cur ==
    [currentLogicalIndex |-> currentLogicalIndex,
     currentDisplayIndex |-> currentDisplayIndex,
     slideWidth |-> slideWidth,
     trackTransition |-> trackTransition,
     trackTransform |-> trackTransform,
     animating |-> animating,
     transitionendListener |-> transitionendListener,
     dragging |-> dragging,
     autoSlideInterval |-> autoSlideInterval,
     activeTimers |-> activeTimers,
     pointerDownX |-> pointerDownX,
     currentTrackPixelOffset |-> currentTrackPixelOffset,
     pointerIsDown |-> pointerIsDown,
     downTimestamp |-> downTimestamp,
     hasDraggedSignificantly |-> hasDraggedSignificantly,
     location |-> location,
     branch |-> "none",
     advances |-> 0]

ReleaseHandlers == {"pointerup", "pointerleave", "pointercancel"}

\* The handlers the ghost 'last' tells apart.
ObservedHandlers == ReleaseHandlers \cup {"render"}

Commit(handler, r) ==
    /\ currentLogicalIndex' = r.currentLogicalIndex
    /\ currentDisplayIndex' = r.currentDisplayIndex
    /\ slideWidth' = r.slideWidth
    /\ trackTransition' = r.trackTransition
    /\ trackTransform' = r.trackTransform
    /\ animating' = r.animating
    /\ transitionendListener' = r.transitionendListener
    /\ dragging' = r.dragging
    /\ autoSlideInterval' = r.autoSlideInterval
    /\ activeTimers' = r.activeTimers
    /\ pointerDownX' = r.pointerDownX
    /\ currentTrackPixelOffset' = r.currentTrackPixelOffset
    /\ pointerIsDown' = r.pointerIsDown
    /\ downTimestamp' = r.downTimestamp
    /\ hasDraggedSignificantly' = r.hasDraggedSignificantly
    /\ location' = r.location
    /\ last' = [handler |-> IF handler \in ObservedHandlers THEN handler ELSE "other",
                 branch |-> r.branch, advances |-> r.advances]

\* ------------------------------------------------------- slider functions
\* The stylesheet's '.dragging .slider-track { transition: none !important }'
\* overrides the inline transition while the class is set.
updateSlidePositionAt(st, animate, offsetWidth) ==
    LET offset == -st.currentDisplayIndex * offsetWidth
        effective == animate /\ ~st.dragging
    IN [st EXCEPT !.slideWidth = offsetWidth,
                  !.trackTransition = IF animate THEN "animate" ELSE "none",
                  !.trackTransform = offset,
                  !.animating = IF effective
                                THEN st.animating \/ offset # st.trackTransform
                                ELSE FALSE]

updateSlidePosition(st, animate) ==
    updateSlidePositionAt(st, animate, containerWidth)

clearInterval(st) ==
    IF st.autoSlideInterval = "live"
    THEN [st EXCEPT !.autoSlideInterval = "cleared",
                    !.activeTimers = st.activeTimers - 1]
    ELSE st

setInterval(st) ==
    [st EXCEPT !.autoSlideInterval = "live",
               !.activeTimers = st.activeTimers + 1]

resetAutoSlide(st) ==
    LET c == clearInterval(st)
    IN IF totalOriginalSlides > 1 THEN setInterval(c) ELSE c

\* handleTransitionEnd that looks for the trailing clone one slot too far.
handleTransitionEnd_offByOne(st) ==
    LET s0 == [st EXCEPT !.transitionendListener = FALSE]
    IN IF s0.currentDisplayIndex = 0 /\ needsCloning
       THEN updateSlidePosition(
                [s0 EXCEPT !.currentDisplayIndex = totalOriginalSlides,
                           !.currentLogicalIndex = totalOriginalSlides - 1],
                FALSE)
       ELSE IF s0.currentDisplayIndex = Len(effectiveSlidesData) /\ needsCloning
       THEN updateSlidePosition(
                [s0 EXCEPT !.currentDisplayIndex = 1,
                           !.currentLogicalIndex = 0],
                FALSE)
       ELSE s0

handleTransitionEnd(st) ==
    LET s0 == [st EXCEPT !.transitionendListener = FALSE]
    IN IF s0.currentDisplayIndex = 0 /\ needsCloning
       THEN updateSlidePosition(
                [s0 EXCEPT !.currentDisplayIndex = totalOriginalSlides,
                           !.currentLogicalIndex = totalOriginalSlides - 1],
                FALSE)
       ELSE IF s0.currentDisplayIndex = Len(effectiveSlidesData) - 1 /\ needsCloning
       THEN updateSlidePosition(
                [s0 EXCEPT !.currentDisplayIndex = 1,
                           !.currentLogicalIndex = 0],
                FALSE)
       ELSE s0

\* changeSlide that moves the track but forgets the logical index.
changeSlide_keepsLogical(st, direction) ==
    LET s1 == IF needsCloning
              THEN [st EXCEPT !.currentDisplayIndex = st.currentDisplayIndex + direction,
                              !.transitionendListener = TRUE]
              ELSE st
        s2 == [s1 EXCEPT !.advances = s1.advances + 1]
    IN resetAutoSlide(updateSlidePosition(s2, TRUE))

changeSlide(st, direction) ==
    LET l == (st.currentLogicalIndex + direction + totalOriginalSlides)
                 % totalOriginalSlides
        s1 == IF needsCloning
              THEN [st EXCEPT !.currentLogicalIndex = l,
                              !.currentDisplayIndex = st.currentDisplayIndex + direction,
                              !.transitionendListener = TRUE]
              ELSE [st EXCEPT !.currentLogicalIndex = l,
                              !.currentDisplayIndex = l]
        s2 == [s1 EXCEPT !.advances = s1.advances + 1]
    IN resetAutoSlide(updateSlidePosition(s2, TRUE))

nextSlide(st) == changeSlide(st, 1)
prevSlide(st) == changeSlide(st, -1)

\* goToSlide that positions the track without the transition.
goToSlide_notAnimated(st, originalIndex) ==
    LET s1 == [st EXCEPT !.currentLogicalIndex = originalIndex,
                         !.currentDisplayIndex =
                             IF needsCloning THEN originalIndex + 1
                                             ELSE originalIndex]
        s2 == resetAutoSlide(updateSlidePosition(s1, FALSE))
    IN IF needsCloning THEN [s2 EXCEPT !.transitionendListener = TRUE] ELSE s2

goToSlide(st, originalIndex) ==
    LET s1 == [st EXCEPT !.currentLogicalIndex = originalIndex,
                         !.currentDisplayIndex =
                             IF needsCloning THEN originalIndex + 1
                                             ELSE originalIndex]
        s2 == resetAutoSlide(updateSlidePosition(s1, TRUE))
    IN IF needsCloning THEN [s2 EXCEPT !.transitionendListener = TRUE] ELSE s2

\* An article that is not flagged breaking; published_age is the age of
\* published_iso in hours at render time.
PlainArticle(i) ==
    [id |-> i, is_breaking |-> FALSE, published_age |-> 7, trend_score |-> 1]

\* No function is being called.
NoCall ==
    /\ args = [fn |-> "none"]
    /\ returned = [done |-> FALSE, value |-> 0]

\* No page loader has run.
NoLoad ==
    /\ promise = "none"
    /\ response = [kind |-> "none"]
    /\ regions = <<>>

\* Nothing has been spoken.
NoSpeech ==
    /\ currentUtterance = 0
    /\ currentPlayingButton = "null"
    /\ ttsButtons = <<>>
    /\ synth = [paused |-> FALSE, utterances |-> <<>>]

\* Nothing has been typed into the search box.
NoSearch ==
    /\ searchInput = <<>>
    /\ debounceTimeout = "none"
    /\ calls = <<>>
    /\ suggestionsContainer = [items |-> <<>>, display |-> "none"]

\* The push step has not started.
NoPush ==
    /\ retry_count = 0
    /\ shell = [pc |-> "none"]
    /\ log = <<>>

\* No run of forward advances is being observed.
NoLoop == [from |-> -1, pairs |-> 0, pending |-> FALSE]

\* ------------------------------------------------------------------ Init
\* The state renderBreakingNews leaves behind for a slide set of N >= 1.
Init ==
    /\ totalOriginalSlides \in 1..MaxSlides
    /\ slidesData = [i \in 1..totalOriginalSlides |-> i]
    /\ effectiveSlidesData = EffectiveOf(slidesData)
    /\ containerWidth \in Widths
    /\ mouseInside \in BOOLEAN
    /\ hovered = FALSE
    /\ currentLogicalIndex = 0
    /\ currentDisplayIndex = IF totalOriginalSlides > 1 THEN 1 ELSE 0
    /\ slideWidth = containerWidth
    /\ trackTransition = "none"
    /\ trackTransform = -currentDisplayIndex * containerWidth
    /\ animating = FALSE
    /\ transitionendListener = FALSE
    /\ dragging = FALSE
    /\ autoSlideInterval = "live"
    /\ activeTimers = 1
    /\ pointerDownX = 0
    /\ currentTrackPixelOffset = 0
    /\ pointerIsDown = FALSE
    /\ downTimestamp = 0
    /\ hasDraggedSignificantly = FALSE
    /\ location = 0
    /\ last = [handler |-> "other", branch |-> "none", advances |-> 0]
    /\ loop = NoLoop
    /\ articles = [i \in 1..totalOriginalSlides |-> PlainArticle(i)]
    /\ renders = 1
    /\ sectionDisplay = "block"
    /\ labelText = "Trending"
    /\ trackNodes = effectiveSlidesData
    /\ controls = (totalOriginalSlides > 1)
    /\ listenerSets = 1
    /\ stale = <<>>
    /\ NoCall
    /\ NoLoad
    /\ NoSpeech /\ NoSearch /\ NoPush

\* ---------------------------------------------------------------- events
\* Layout of the track (styles.css: '.slider-track { display: flex }',
\* '.breaking-news-item { flex: 0 0 100% }'): slide k covers the track from
\* k x width to (k+1) x width, and the container shows the window that the
\* transform moves over it.
Overlaps(k) ==
    /\ k * containerWidth < containerWidth - trackTransform
    /\ (k + 1) * containerWidth > -trackTransform

VisibleSlides == {k \in 0..(Len(effectiveSlidesData) - 1) : Overlaps(k)}

EmptySpaceVisible ==
    \/ trackTransform > 0
    \/ trackTransform < -(Len(effectiveSlidesData) - 1) * containerWidth

\* What a pointer event inside the container can hit: a visible slide anchor,
\* a control (arrows and dots exist only for more than one slide), or the
\* container itself where the track leaves it uncovered.
Targets ==
    {[kind |-> "slide", index |-> k] : k \in VisibleSlides}
    \cup (IF needsCloning THEN {[kind |-> "control", index |-> 0]} ELSE {})
    \cup (IF EmptySpaceVisible THEN {[kind |-> "container", index |-> 0]} ELSE {})

DownEvents ==
    [clientX : DownXs, timeStamp : DownTimes, button : {0, 2}, target : Targets]

\* pointerup carries the button that was released; pointercancel bubbles from
\* whatever is under the pointer.
UpEvents ==
    {e \in [clientX : ClientXs, timeStamp : Times, button : {0, 2}, target : Targets] :
        e.timeStamp >= downTimestamp}

CancelEvents ==
    {e \in [clientX : ClientXs, timeStamp : Times, button : {-1, 0}, target : Targets] :
        e.timeStamp >= downTimestamp}

\* pointerleave does not bubble: its target is the container itself.
LeaveEvents ==
    {e \in [clientX : ClientXs, timeStamp : Times, button : {-1, 0},
            target : {[kind |-> "container", index |-> 0]}] :
        e.timeStamp >= downTimestamp}

MoveEvents == [clientX : ClientXs]

\* ----------------------------------------------------- pointer handlers
pointerdownHandler(st, e) ==
    LET s0 == [st EXCEPT !.pointerDownX = e.clientX,
                         !.downTimestamp = e.timeStamp,
                         !.hasDraggedSignificantly = FALSE,
                         !.pointerIsDown = TRUE,
                         !.dragging = TRUE,
                         !.trackTransition = "none",
                         !.animating = FALSE,
                         !.slideWidth = containerWidth,
                         !.currentTrackPixelOffset =
                             -st.currentDisplayIndex * containerWidth]
    IN clearInterval(s0)

pointermoveHandler(st, e) ==
    LET dragDeltaX == e.clientX - st.pointerDownX
    IN [st EXCEPT !.hasDraggedSignificantly =
                      st.hasDraggedSignificantly
                      \/ Abs(dragDeltaX) > DRAG_START_THRESHOLD,
                  !.trackTransform = st.currentTrackPixelOffset + dragDeltaX]

\* handlePointerRelease that maps the sign of the displacement the wrong way.
handlePointerRelease_reversed(st, e) ==
    LET s0 == [st EXCEPT !.dragging = FALSE, !.pointerIsDown = FALSE]
        dragDeltaX == e.clientX - st.pointerDownX
        timeElapsed == e.timeStamp - st.downTimestamp
    IN IF e.target.kind = "control"
       THEN [resetAutoSlide(s0) EXCEPT !.branch = "control"]
       ELSE IF /\ ~st.hasDraggedSignificantly
               /\ timeElapsed < CLICK_TIME_THRESHOLD_MS
               /\ e.button = 0
       THEN IF e.target.kind = "slide"
            THEN [s0 EXCEPT !.location = EffAt(e.target.index),
                            !.branch = "click"]
            ELSE [resetAutoSlide(updateSlidePosition(s0, TRUE))
                      EXCEPT !.branch = "snap-noclick"]
       ELSE IF Abs(dragDeltaX) >= SWIPE_ACTION_THRESHOLD_PIXELS
       THEN [resetAutoSlide(changeSlide(s0, IF dragDeltaX < 0 THEN -1 ELSE 1))
                 EXCEPT !.branch = "swipe"]
       ELSE [resetAutoSlide(updateSlidePosition(s0, TRUE))
                 EXCEPT !.branch = "snap"]

\* handlePointerRelease whose click branch snaps back instead of navigating.
handlePointerRelease_swallowsClick(st, e) ==
    LET s0 == [st EXCEPT !.dragging = FALSE, !.pointerIsDown = FALSE]
        dragDeltaX == e.clientX - st.pointerDownX
        timeElapsed == e.timeStamp - st.downTimestamp
    IN IF e.target.kind = "control"
       THEN [resetAutoSlide(s0) EXCEPT !.branch = "control"]
       ELSE IF /\ ~st.hasDraggedSignificantly
               /\ timeElapsed < CLICK_TIME_THRESHOLD_MS
               /\ e.button = 0
       THEN [resetAutoSlide(updateSlidePosition(s0, TRUE))
                 EXCEPT !.branch = "snap-noclick"]
       ELSE IF Abs(dragDeltaX) >= SWIPE_ACTION_THRESHOLD_PIXELS
       THEN [resetAutoSlide(changeSlide(s0, IF dragDeltaX < 0 THEN 1 ELSE -1))
                 EXCEPT !.branch = "swipe"]
       ELSE [resetAutoSlide(updateSlidePosition(s0, TRUE))
                 EXCEPT !.branch = "snap"]

handlePointerRelease(st, e) ==
    LET s0 == [st EXCEPT !.dragging = FALSE, !.pointerIsDown = FALSE]
        dragDeltaX == e.clientX - st.pointerDownX
        timeElapsed == e.timeStamp - st.downTimestamp
    IN IF e.target.kind = "control"
       THEN [resetAutoSlide(s0) EXCEPT !.branch = "control"]
       ELSE IF /\ ~st.hasDraggedSignificantly
               /\ timeElapsed < CLICK_TIME_THRESHOLD_MS
               /\ e.button = 0
       THEN IF e.target.kind = "slide"
            THEN [s0 EXCEPT !.location = EffAt(e.target.index),
                            !.branch = "click"]
            ELSE [resetAutoSlide(updateSlidePosition(s0, TRUE))
                      EXCEPT !.branch = "snap-noclick"]
       ELSE IF Abs(dragDeltaX) >= SWIPE_ACTION_THRESHOLD_PIXELS
       THEN [resetAutoSlide(changeSlide(s0, IF dragDeltaX < 0 THEN 1 ELSE -1))
                 EXCEPT !.branch = "swipe"]
       ELSE [resetAutoSlide(updateSlidePosition(s0, TRUE))
                 EXCEPT !.branch = "snap"]

\* --------------------------------------------------------------- actions
Env == <<consts, containerWidth, mouseInside, hovered>>

\* displayIndex is unbounded in the source; the model stops at MaxOvershoot
\* slots beyond the clones.
WithinCap(r) ==
    r.currentDisplayIndex \in
        (0 - MaxOvershoot)..(Len(effectiveSlidesData) - 1 + MaxOvershoot)

Handle(handler, r) ==
    /\ WithinCap(r)
    /\ Commit(handler, r)
    /\ UNCHANGED Env

ClickNext ==
    /\ location = 0 /\ needsCloning
    /\ Handle("click-next", nextSlide(Cur))

ClickPrev ==
    /\ location = 0 /\ needsCloning
    /\ Handle("click-prev", prevSlide(Cur))

ClickDot ==
    /\ location = 0 /\ needsCloning
    /\ \E i \in 0..(totalOriginalSlides - 1) : Handle("click-dot", goToSlide(Cur, i))

AutoSlideTick ==
    /\ location = 0 /\ activeTimers > 0
    /\ Handle("autoplay", nextSlide(Cur))

TransitionEnd ==
    /\ location = 0 /\ animating
    /\ LET s0 == [Cur EXCEPT !.animating = FALSE]
       IN Handle("transitionend",
                 IF transitionendListener THEN handleTransitionEnd(s0) ELSE s0)

MouseEnter ==
    /\ location = 0 /\ ~mouseInside
    /\ mouseInside' = TRUE
    /\ hovered' = TRUE
    /\ Commit("mouseenter", clearInterval(Cur))
    /\ UNCHANGED <<consts, containerWidth>>

MouseLeave ==
    /\ location = 0 /\ mouseInside
    /\ mouseInside' = FALSE
    /\ hovered' = FALSE
    /\ Commit("mouseleave", resetAutoSlide(Cur))
    /\ UNCHANGED <<consts, containerWidth>>

Resize ==
    /\ location = 0
    /\ \E w \in Widths \ {containerWidth} :
          /\ containerWidth' = w
          /\ Commit("resize", updateSlidePositionAt(Cur, FALSE, w))
    /\ UNCHANGED <<consts, mouseInside, hovered>>

PointerDownEv(e) ==
    /\ location = 0
    /\ IF e.button # 0 \/ e.target.kind = "control"
       THEN UNCHANGED svars
       ELSE Handle("pointerdown", pointerdownHandler(Cur, e))

PointerMoveEv(e) ==
    /\ location = 0 /\ pointerIsDown
    /\ Handle("pointermove", pointermoveHandler(Cur, e))

\* One release event that finds a gesture open.
ReleaseEv(handler, e) ==
    /\ location = 0 /\ pointerIsDown
    /\ Handle(handler, handlePointerRelease(Cur, e))

\* The handlers return at once ('if (!pointerIsDown) return') when no gesture
\* is open, whatever the event carries.
NoGesture == location = 0 /\ ~pointerIsDown /\ UNCHANGED svars

PointerDown == \E e \in DownEvents : PointerDownEv(e)

PointerMove ==
    IF pointerIsDown THEN \E e \in MoveEvents : PointerMoveEv(e) ELSE NoGesture

\* pointerup, pointerleave and pointercancel all end in handlePointerRelease.
PointerUp ==
    IF pointerIsDown THEN \E e \in UpEvents : ReleaseEv("pointerup", e)
                     ELSE NoGesture

PointerLeave ==
    IF pointerIsDown THEN \E e \in LeaveEvents : ReleaseEv("pointerleave", e)
                     ELSE NoGesture

PointerCancel ==
    IF pointerIsDown THEN \E e \in CancelEvents : ReleaseEv("pointercancel", e)
                     ELSE NoGesture

\* The slider with every event source.
Next ==
    \/ ClickNext /\ UNCHANGED <<loop, pvars, qvars, lvars, ovars>>
    \/ ClickPrev /\ UNCHANGED <<loop, pvars, qvars, lvars, ovars>>
    \/ ClickDot /\ UNCHANGED <<loop, pvars, qvars, lvars, ovars>>
    \/ AutoSlideTick /\ UNCHANGED <<loop, pvars, qvars, lvars, ovars>>
    \/ TransitionEnd /\ UNCHANGED <<loop, pvars, qvars, lvars, ovars>>
    \/ MouseEnter /\ UNCHANGED <<loop, pvars, qvars, lvars, ovars>>
    \/ MouseLeave /\ UNCHANGED <<loop, pvars, qvars, lvars, ovars>>
    \/ Resize /\ UNCHANGED <<loop, pvars, qvars, lvars, ovars>>
    \/ PointerDown /\ UNCHANGED <<loop, pvars, qvars, lvars, ovars>>
    \/ PointerMove /\ UNCHANGED <<loop, pvars, qvars, lvars, ovars>>
    \/ PointerUp /\ UNCHANGED <<loop, pvars, qvars, lvars, ovars>>
    \/ PointerLeave /\ UNCHANGED <<loop, pvars, qvars, lvars, ovars>>
    \/ PointerCancel /\ UNCHANGED <<loop, pvars, qvars, lvars, ovars>>

Spec == Init /\ [][Next]_vars

\* Only advances (arrows, autoplay, swipe gestures) and transition completions.
AdvancesNext ==
    \/ ClickNext /\ UNCHANGED <<loop, pvars, qvars, lvars, ovars>>
    \/ ClickPrev /\ UNCHANGED <<loop, pvars, qvars, lvars, ovars>>
    \/ AutoSlideTick /\ UNCHANGED <<loop, pvars, qvars, lvars, ovars>>
    \/ TransitionEnd /\ UNCHANGED <<loop, pvars, qvars, lvars, ovars>>
    \/ PointerDown /\ UNCHANGED <<loop, pvars, qvars, lvars, ovars>>
    \/ PointerMove /\ UNCHANGED <<loop, pvars, qvars, lvars, ovars>>
    \/ PointerUp /\ UNCHANGED <<loop, pvars, qvars, lvars, ovars>>

SpecAdvances == Init /\ [][AdvancesNext]_vars

\* Advances, direct navigation, gestures and transition completions: the
\* handlers that move the slider, without hover and resize.
SeamNext ==
    \/ ClickNext /\ UNCHANGED <<loop, pvars, qvars, lvars, ovars>>
    \/ ClickPrev /\ UNCHANGED <<loop, pvars, qvars, lvars, ovars>>
    \/ ClickDot /\ UNCHANGED <<loop, pvars, qvars, lvars, ovars>>
    \/ AutoSlideTick /\ UNCHANGED <<loop, pvars, qvars, lvars, ovars>>
    \/ TransitionEnd /\ UNCHANGED <<loop, pvars, qvars, lvars, ovars>>
    \/ PointerDown /\ UNCHANGED <<loop, pvars, qvars, lvars, ovars>>
    \/ PointerMove /\ UNCHANGED <<loop, pvars, qvars, lvars, ovars>>
    \/ PointerUp /\ UNCHANGED <<loop, pvars, qvars, lvars, ovars>>

SpecSeam == Init /\ [][SeamNext]_vars

\* The same handlers and resize, with transition completions delivered
\* whenever a transition of the track is running: the browser fires
\* transitionend when a transition ends, and nothing when a transition is
\* cut short by 'transition: none'.
LiveNext ==
    \/ SeamNext
    \/ Resize /\ UNCHANGED <<loop, pvars, qvars, lvars, ovars>>

SpecLive ==
    /\ Init
    /\ [][LiveNext]_vars
    /\ WF_vars(TransitionEnd /\ UNCHANGED <<loop, pvars, qvars, lvars, ovars>>)

\* The slider without gestures, observed for runs of forward advances that are
\* each followed by their transition completion.  loop.from is the logical
\* index the run started from, loop.pairs the completed pairs.
LoopAdvance ==
    /\ ClickNext \/ AutoSlideTick
    /\ loop' = IF loop.pending THEN NoLoop
               ELSE IF loop.from = -1 \/ loop.pairs = totalOriginalSlides
               THEN IF needsCloning /\ currentDisplayIndex = currentLogicalIndex + 1
                    THEN [from |-> currentLogicalIndex, pairs |-> 0, pending |-> TRUE]
                    ELSE NoLoop
               ELSE [loop EXCEPT !.pending = TRUE]

LoopTransitionEnd ==
    /\ TransitionEnd
    /\ loop' = IF loop.pending
               THEN [loop EXCEPT !.pairs = loop.pairs + 1, !.pending = FALSE]
               ELSE NoLoop

LoopHover ==
    /\ MouseEnter \/ MouseLeave
    /\ UNCHANGED loop

LoopOther ==
    /\ ClickPrev \/ ClickDot \/ Resize
    /\ loop' = NoLoop

LoopNext ==
    \/ LoopAdvance /\ UNCHANGED <<pvars, qvars, lvars, ovars>>
    \/ LoopTransitionEnd /\ UNCHANGED <<pvars, qvars, lvars, ovars>>
    \/ LoopHover /\ UNCHANGED <<pvars, qvars, lvars, ovars>>
    \/ LoopOther /\ UNCHANGED <<pvars, qvars, lvars, ovars>>

SpecLoop == Init /\ [][LoopNext]_vars

\* ------------------------------------------------------- slide selection
\* published_age of an article without published_iso.
NoDate == -1

\* a.is_breaking && a.published_iso && (now - published)/(1000*60*60) <= 6
isRecentBreaking(a) ==
    /\ a.is_breaking
    /\ a.published_age # NoDate
    /\ a.published_age <= BREAKING_WINDOW_HOURS

\* !a.is_breaking || (a.published_iso && (now - published)/(1000*60*60) > 6)
isNonBreaking(a) ==
    \/ ~a.is_breaking
    \/ (a.published_age # NoDate /\ a.published_age > BREAKING_WINDOW_HOURS)

\* a.trend_score || 0: a missing score is 0.
TrendOf(a) == a.trend_score

\* array.slice(0, n)
Slice(s, n) == SubSeq(s, 1, IF Len(s) < n THEN Len(s) ELSE n)

\* Array.prototype.sort with (a, b) => TrendOf(b) - TrendOf(a): descending and
\* stable, an element stays ahead of the later ones it ties with.
RECURSIVE InsertByTrend(_, _)
InsertByTrend(x, s) ==
    IF s = <<>> THEN <<x>>
    ELSE IF TrendOf(Head(s)) > TrendOf(x)
         THEN <<Head(s)>> \o InsertByTrend(x, Tail(s))
         ELSE <<x>> \o s

RECURSIVE SortByTrend(_)
SortByTrend(s) ==
    IF s = <<>> THEN <<>> ELSE InsertByTrend(Head(s), SortByTrend(Tail(s)))

breakingArticles(as) == SelectSeq(as, isRecentBreaking)

nonBreaking(as) == SortByTrend(SelectSeq(as, isNonBreaking))

\* The slide set and its label, as renderBreakingNews chooses them.
SelectSlides(as) ==
    IF Len(breakingArticles(as)) > 0
    THEN [slides |-> Slice(breakingArticles(as), MAX_BANNER_SLIDES),
          label |-> "Breaking"]
    ELSE IF Len(nonBreaking(as)) > 0
    THEN [slides |-> Slice(nonBreaking(as), MAX_BANNER_SLIDES),
          label |-> "Trending"]
    ELSE [slides |-> <<>>, label |-> "none"]

\* ----------------------------------------------------- renderBreakingNews
\* The variables a render's closure owns.
ClosureOf(st) ==
    [currentLogicalIndex |-> st.currentLogicalIndex,
     currentDisplayIndex |-> st.currentDisplayIndex,
     slideWidth |-> st.slideWidth,
     transitionendListener |-> st.transitionendListener,
     pointerDownX |-> st.pointerDownX,
     currentTrackPixelOffset |-> st.currentTrackPixelOffset,
     pointerIsDown |-> st.pointerIsDown,
     downTimestamp |-> st.downTimestamp,
     hasDraggedSignificantly |-> st.hasDraggedSignificantly]

\* The page state st as the listeners of closure c see it.
Enter(st, c) ==
    [st EXCEPT !.currentLogicalIndex = c.currentLogicalIndex,
               !.currentDisplayIndex = c.currentDisplayIndex,
               !.slideWidth = c.slideWidth,
               !.transitionendListener = c.transitionendListener,
               !.pointerDownX = c.pointerDownX,
               !.currentTrackPixelOffset = c.currentTrackPixelOffset,
               !.pointerIsDown = c.pointerIsDown,
               !.downTimestamp = c.downTimestamp,
               !.hasDraggedSignificantly = c.hasDraggedSignificantly]

\* The closure a render starts with.
FreshClosure(n) ==
    [currentLogicalIndex |-> 0,
     currentDisplayIndex |-> IF n > 1 THEN 1 ELSE 0,
     slideWidth |-> containerWidth,
     transitionendListener |-> FALSE,
     pointerDownX |-> 0,
     currentTrackPixelOffset |-> 0,
     pointerIsDown |-> FALSE,
     downTimestamp |-> 0,
     hasDraggedSignificantly |-> FALSE]

\* renderBreakingNews that shows the section with an empty track instead of
\* hiding it.
renderBreakingNews_showsEmpty ==
    LET sel == SelectSlides(articles)
        sd == [i \in 1..Len(sel.slides) |-> sel.slides[i].id]
        n == Len(sd)
        c0 == IF autoSlideInterval # "null" THEN clearInterval(Cur) ELSE Cur
        r == updateSlidePosition(Enter(setInterval(c0), FreshClosure(n)), FALSE)
    IN /\ renders' = renders + 1
       /\ UNCHANGED <<articles, containerWidth, mouseInside, hovered, loop>>
       /\ IF n = 0
          THEN /\ sectionDisplay' = "block"
               /\ trackNodes' = <<>>
               /\ Commit("render", c0)
               /\ UNCHANGED <<consts, labelText, controls, listenerSets, stale>>
          ELSE /\ sectionDisplay' = "block"
               /\ labelText' = sel.label
               /\ totalOriginalSlides' = n
               /\ slidesData' = sd
               /\ effectiveSlidesData' = EffectiveOf(sd)
               /\ trackNodes' = EffectiveOf(sd)
               /\ controls' = (n > 1)
               /\ Commit("render", r)
               /\ listenerSets' = listenerSets + 1
               /\ stale' = IF listenerSets > Len(stale)
                           THEN Append(stale, ClosureOf(Cur))
                           ELSE stale

\* One call renderBreakingNews(articles).  The track is emptied and a pending
\* interval cleared; without slides the section is hidden and the call
\* returns; otherwise the nodes, the controls, the interval and the listeners
\* of a new closure are added.  Listeners are only ever added: the closure of
\* an earlier render stays registered on the container.
renderBreakingNews ==
    LET sel == SelectSlides(articles)
        sd == [i \in 1..Len(sel.slides) |-> sel.slides[i].id]
        n == Len(sd)
        c0 == IF autoSlideInterval # "null" THEN clearInterval(Cur) ELSE Cur
        r == updateSlidePosition(Enter(setInterval(c0), FreshClosure(n)), FALSE)
    IN /\ renders' = renders + 1
       /\ UNCHANGED <<articles, containerWidth, mouseInside, hovered, loop>>
       /\ IF n = 0
          THEN /\ sectionDisplay' = "none"
               /\ trackNodes' = <<>>
               /\ Commit("render", c0)
               /\ UNCHANGED <<consts, labelText, controls, listenerSets, stale>>
          ELSE /\ sectionDisplay' = "block"
               /\ labelText' = sel.label
               /\ totalOriginalSlides' = n
               /\ slidesData' = sd
               /\ effectiveSlidesData' = EffectiveOf(sd)
               /\ trackNodes' = EffectiveOf(sd)
               /\ controls' = (n > 1)
               /\ Commit("render", r)
               /\ listenerSets' = listenerSets + 1
               /\ stale' = IF listenerSets > Len(stale)
                           THEN Append(stale, ClosureOf(Cur))
                           ELSE stale

\* The page before the first render.
Unrendered ==
    /\ totalOriginalSlides = 0
    /\ slidesData = <<>>
    /\ effectiveSlidesData = <<>>
    /\ currentLogicalIndex = 0
    /\ currentDisplayIndex = 0
    /\ slideWidth = 0
    /\ trackTransition = "none"
    /\ trackTransform = 0
    /\ animating = FALSE
    /\ transitionendListener = FALSE
    /\ dragging = FALSE
    /\ autoSlideInterval = "null"
    /\ activeTimers = 0
    /\ pointerDownX = 0
    /\ currentTrackPixelOffset = 0
    /\ pointerIsDown = FALSE
    /\ downTimestamp = 0
    /\ hasDraggedSignificantly = FALSE
    /\ location = 0
    /\ hovered = FALSE
    /\ last = [handler |-> "other", branch |-> "none", advances |-> 0]
    /\ loop = NoLoop
    /\ renders = 0
    /\ sectionDisplay = "unset"
    /\ labelText = "none"
    /\ trackNodes = <<>>
    /\ controls = FALSE
    /\ listenerSets = 0
    /\ stale = <<>>

\* Feeds for the slide selection: articles flagged breaking (published at
\* the edge of the window, older than it, undated) and articles not flagged,
\* with two scores.
ArticleKinds ==
    {[is_breaking |-> TRUE, published_age |-> 6, trend_score |-> 1],
     [is_breaking |-> TRUE, published_age |-> 7, trend_score |-> 2],
     [is_breaking |-> TRUE, published_age |-> NoDate, trend_score |-> 2],
     [is_breaking |-> FALSE, published_age |-> 7, trend_score |-> 1],
     [is_breaking |-> FALSE, published_age |-> 7, trend_score |-> 2]}

\* A feed of the given articles, their ids the positions in the feed.
WithIds(f) ==
    [i \in DOMAIN f |-> [id |-> i,
                         is_breaking |-> f[i].is_breaking,
                         published_age |-> f[i].published_age,
                         trend_score |-> f[i].trend_score]]

\* The selection does not look at the geometry: one width.
InitSelect ==
    /\ \E n \in 0..MaxFeed :
          \E f \in [1..n -> ArticleKinds] : articles = WithIds(f)
    /\ containerWidth = 300
    /\ mouseInside = FALSE
    /\ Unrendered
    /\ NoCall
    /\ NoLoad
    /\ NoSpeech /\ NoSearch /\ NoPush

\* The page calls renderBreakingNews once (loadHomepageData).
RenderOnce == renders = 0 /\ renderBreakingNews /\ UNCHANGED <<qvars, lvars, ovars>>

SpecSelect == InitSelect /\ [][RenderOnce]_vars

\* ------------------------------------------------------------ re-render
\* What one closure's listener does with a pointer event, early returns
\* included.
RunListener(kind, st, e) ==
    CASE kind = "pointerdown" ->
           IF e.button # 0 \/ e.target.kind = "control"
           THEN st ELSE pointerdownHandler(st, e)
      [] kind = "pointermove" ->
           IF ~st.pointerIsDown THEN st ELSE pointermoveHandler(st, e)
      [] kind = "pointerup" ->
           IF ~st.pointerIsDown THEN st ELSE handlePointerRelease(st, e)

\* The page after the listeners of the first k stale closures have run, in
\* the order they were registered; every closure acts on the same track, the
\* same class list and the same interval handle.
RECURSIVE AfterStale(_, _, _)
AfterStale(kind, e, k) ==
    IF k = 0 THEN Cur
    ELSE RunListener(kind, Enter(AfterStale(kind, e, k - 1), stale[k]), e)

\* A pointer event on the container runs the listener of every render.
Dispatch(kind, e) ==
    LET r == RunListener(kind,
                         Enter(AfterStale(kind, e, Len(stale)), ClosureOf(Cur)),
                         e)
    IN /\ WithinCap(r)
       /\ \A k \in 1..Len(stale) : WithinCap(AfterStale(kind, e, k))
       /\ Commit(kind, r)
       /\ stale' = [k \in 1..Len(stale) |-> ClosureOf(AfterStale(kind, e, k))]
       /\ UNCHANGED <<Env, loop, articles, renders, sectionDisplay, labelText,
                      trackNodes, controls, listenerSets, qvars, lvars, ovars>>

\* Events reach the container while it is shown and somebody listens.
Listening == location = 0 /\ sectionDisplay = "block" /\ listenerSets > 0

AllPointerDown ==
    /\ Listening
    /\ \E e \in DownEvents :
          IF e.button # 0 \/ e.target.kind = "control"
          THEN UNCHANGED vars
          ELSE Dispatch("pointerdown", e)

AllPointerMove ==
    /\ Listening
    /\ IF pointerIsDown THEN \E e \in MoveEvents : Dispatch("pointermove", e)
                        ELSE UNCHANGED vars

AllPointerUp ==
    /\ Listening
    /\ IF pointerIsDown THEN \E e \in UpEvents : Dispatch("pointerup", e)
                        ELSE UNCHANGED vars

\* A data refresh renders the same feed again, between gestures.
Render ==
    /\ renders < MaxRenders
    /\ location = 0
    /\ ~pointerIsDown
    /\ renderBreakingNews
    /\ UNCHANGED <<qvars, lvars, ovars>>

\* Feeds without an article, with one and with two; a re-render does not
\* depend on the width of the container.
InitRender ==
    /\ articles \in {[i \in 1..n |-> PlainArticle(i)] : n \in 0..2}
    /\ containerWidth = 300
    /\ mouseInside \in BOOLEAN
    /\ Unrendered
    /\ NoCall
    /\ NoLoad
    /\ NoSpeech /\ NoSearch /\ NoPush

RenderNext ==
    \/ Render
    \/ AllPointerDown
    \/ AllPointerMove
    \/ AllPointerUp

SpecRender == InitRender /\ [][RenderNext]_vars

\* ------------------------------------------------------------- strings
\* A string is the sequence of its characters.  The letters the inputs use:
LowerOf ==
    ("A" :> "a") @@ ("C" :> "c") @@ ("I" :> "i") @@ ("N" :> "n") @@ ("U" :> "u")

\* [A-Za-z0-9_] as far as the inputs go; blank and hyphen are \W.
WordChars ==
    {"a", "c", "d", "e", "h", "i", "l", "n", "p", "s", "u", "v", "w"}
    \cup DOMAIN LowerOf

Blank == <<" ">>

toLowerCase(str) ==
    [i \in 1..Len(str) |-> IF str[i] \in DOMAIN LowerOf THEN LowerOf[str[i]]
                                                        ELSE str[i]]

\* String.prototype.includes
includes(str, sub) ==
    \E i \in 0..(Len(str) - Len(sub)) : SubSeq(str, i + 1, i + Len(sub)) = sub

\* str.split(/[\s\W]+/).filter(Boolean): the maximal runs of word characters.
RECURSIVE ScanWords(_, _, _, _)
ScanWords(str, i, cur, acc) ==
    IF i > Len(str)
    THEN IF cur = <<>> THEN acc ELSE Append(acc, cur)
    ELSE IF str[i] \in WordChars
         THEN ScanWords(str, i + 1, Append(cur, str[i]), acc)
         ELSE ScanWords(str, i + 1, <<>>,
                        IF cur = <<>> THEN acc ELSE Append(acc, cur))

SplitWords(str) == ScanWords(str, 1, <<>>, <<>>)

\* Array.prototype.join(' ')
RECURSIVE join(_)
join(list) ==
    IF list = <<>> THEN <<>>
    ELSE IF Len(list) = 1 THEN list[1]
    ELSE list[1] \o Blank \o join(Tail(list))

\* Array.prototype.includes on a list of strings
listIncludes(list, x) == \E j \in 1..Len(list) : list[j] = x

\* ------------------------------------------------------- relevance scorer
\* An absent field reads as the empty string or list
\* (article.title?.toLowerCase() || '', article.tags || []).
\* The phrase bonuses added up over the fields instead of first match only.
calculateSearchScore_cumulativePhrase(article, searchTokens) ==
    LET title == toLowerCase(article.title)
        topic == toLowerCase(article.topic)
        tags == [i \in 1..Len(article.tags) |-> toLowerCase(article.tags[i])]
        summary == toLowerCase(article.summary_short)
        text == title \o Blank \o topic \o Blank \o join(tags) \o Blank \o summary
        textTokens == SplitWords(text)
        qPhrase == join(searchTokens)
        someTag(x) == \E i \in 1..Len(tags) : includes(tags[i], x)
        award(token) ==
            IF token = <<>> THEN 0
            ELSE (IF includes(title, token) THEN 15 ELSE 0)
                 + (IF includes(topic, token) THEN 8 ELSE 0)
                 + (IF someTag(token) THEN 5 ELSE 0)
                 + (IF includes(summary, token) THEN 2 ELSE 0)
        loop_[k \in 0..Len(searchTokens)] ==
            IF k = 0 THEN 0 ELSE loop_[k - 1] + award(searchTokens[k])
        phrase == (IF includes(title, qPhrase) THEN 50 ELSE 0)
                  + (IF includes(topic, qPhrase) THEN 25 ELSE 0)
                  + (IF someTag(qPhrase) THEN 15 ELSE 0)
                  + (IF includes(summary, qPhrase) THEN 10 ELSE 0)
        every == \A i \in 1..Len(searchTokens) :
                    listIncludes(textTokens, searchTokens[i])
    IN loop_[Len(searchTokens)] + phrase + (IF every THEN 20 ELSE 0)

calculateSearchScore(article, searchTokens) ==
    LET title == toLowerCase(article.title)
        topic == toLowerCase(article.topic)
        tags == [i \in 1..Len(article.tags) |-> toLowerCase(article.tags[i])]
        summary == toLowerCase(article.summary_short)
        text == title \o Blank \o topic \o Blank \o join(tags) \o Blank \o summary
        textTokens == SplitWords(text)
        qPhrase == join(searchTokens)
        someTag(x) == \E i \in 1..Len(tags) : includes(tags[i], x)
        award(token) ==
            IF token = <<>> THEN 0
            ELSE (IF includes(title, token) THEN 15 ELSE 0)
                 + (IF includes(topic, token) THEN 8 ELSE 0)
                 + (IF someTag(token) THEN 5 ELSE 0)
                 + (IF includes(summary, token) THEN 2 ELSE 0)
        loop_[k \in 0..Len(searchTokens)] ==
            IF k = 0 THEN 0 ELSE loop_[k - 1] + award(searchTokens[k])
        phrase == IF includes(title, qPhrase) THEN 50
                  ELSE IF includes(topic, qPhrase) THEN 25
                  ELSE IF someTag(qPhrase) THEN 15
                  ELSE IF includes(summary, qPhrase) THEN 10
                  ELSE 0
        every == \A i \in 1..Len(searchTokens) :
                    listIncludes(textTokens, searchTokens[i])
    IN loop_[Len(searchTokens)] + phrase + (IF every THEN 20 ELSE 0)

\* The strings of the search inputs.
S_empty == <<>>
S_ai == <<"a", "i">>
S_AI == <<"A", "I">>
S_chip == <<"c", "h", "i", "p">>
S_Chip == <<"C", "h", "i", "p">>
S_chips == <<"c", "h", "i", "p", "s">>
S_ai_chip == S_ai \o Blank \o S_chip
S_a_chip == <<"a">> \o Blank \o S_chip
S_ai_hyphen_chip == S_ai \o <<"-">> \o S_chip
S_chip_ai == S_chip \o Blank \o S_ai
S_punctuation == <<"-", " ", "-">>
S_New_AI_Chip_Unveiled ==
    <<"N", "e", "w">> \o Blank \o S_AI \o Blank \o S_Chip \o Blank
    \o <<"U", "n", "v", "e", "i", "l", "e", "d">>

SearchTitles == {S_empty, S_New_AI_Chip_Unveiled, S_ai_chip, S_chips}
SearchTopics == {S_empty, S_AI, S_ai_chip}
SearchTags == {<<>>, <<S_chip>>, <<S_ai_chip>>, <<S_AI, S_Chip>>}
SearchSummaries == {S_empty, S_ai_chip, S_a_chip}
SearchQueries ==
    {S_ai_chip, S_chip_ai, S_ai, S_chip, S_ai_hyphen_chip, S_punctuation}

\* query.toLowerCase().split(/[\s\W]+/).filter(Boolean)
TokensOf(query) == SplitWords(toLowerCase(query))

InitSearch ==
    /\ \E t \in SearchTitles, p \in SearchTopics, g \in SearchTags,
          m \in SearchSummaries, q \in SearchQueries :
          args = [fn |-> "calculateSearchScore",
                  article |-> [title |-> t, topic |-> p, tags |-> g,
                               summary_short |-> m],
                  searchTokens |-> TokensOf(q)]
    /\ returned = [done |-> FALSE, value |-> 0]
    /\ NoLoad
    /\ NoSpeech /\ NoSearch /\ NoPush
    /\ articles = <<>>
    /\ containerWidth = 300
    /\ mouseInside = FALSE
    /\ Unrendered

CallCalculateSearchScore ==
    /\ args.fn = "calculateSearchScore"
    /\ ~returned.done
    /\ returned' = [done |-> TRUE,
                    value |-> calculateSearchScore(args.article, args.searchTokens)]
    /\ UNCHANGED <<args, svars, loop, pvars, lvars, ovars>>

SpecSearch == InitSearch /\ [][CallCalculateSearchScore]_vars

\* ---------------------------------------------------------- card renderer
\* The value of a field the article does not have.
Undefined == "<undefined>"

\* !v, and the left operand of v || other giving way
Falsy(v) == v \in {Undefined, ""}

\* v || other
OrElse(v, other) == IF Falsy(v) THEN other ELSE v

PLACEHOLDER_IMAGE == "https://via.placeholder.com/300x150?text=No+Image"

\* The card built for one article.
CardOf(article) ==
    [id |-> article.id,
     href |-> "/" \o article.link,
     image |-> OrElse(article.image_url, PLACEHOLDER_IMAGE),
     title |-> OrElse(article.title, "Untitled"),
     topic |-> OrElse(article.topic, "News"),
     breakingLabel |-> /\ article.is_breaking
                       /\ article.published_age # NoDate
                       /\ article.published_age <= BREAKING_WINDOW_HOURS]

\* articles.forEach: an article without id, title or link is passed over.
RECURSIVE CardsOf(_)
CardsOf(list) ==
    IF list = <<>> THEN <<>>
    ELSE (IF \/ Falsy(Head(list).id)
             \/ Falsy(Head(list).title)
             \/ Falsy(Head(list).link)
          THEN <<>> ELSE <<CardOf(Head(list))>>)
         \o CardsOf(Tail(list))

\* renderArticleCardList that also turns away an article without an image.
renderArticleCardList_rejectsNoImage(list, emptyMessage) ==
    IF Len(list) = 0
    THEN [placeholder |-> emptyMessage, error |-> FALSE, cards |-> <<>>]
    ELSE [placeholder |-> "", error |-> FALSE,
          cards |-> CardsOf(SelectSeq(list, LAMBDA a : ~Falsy(a.image_url)))]

\* The content renderArticleCardList leaves in an existing container.
renderArticleCardList(list, emptyMessage) ==
    IF Len(list) = 0
    THEN [placeholder |-> emptyMessage, error |-> FALSE, cards |-> <<>>]
    ELSE [placeholder |-> "", error |-> FALSE, cards |-> CardsOf(list)]

\* Articles for the card list: complete, without id, with an empty title,
\* without link, and complete but for image and topic.
CardKinds ==
    {[id |-> TRUE, title |-> "Title", link |-> "articles/x.html",
      image_url |-> "img.png", topic |-> "Hardware"],
     [id |-> FALSE, title |-> "Title", link |-> "articles/x.html",
      image_url |-> "img.png", topic |-> "Hardware"],
     [id |-> TRUE, title |-> "", link |-> "articles/x.html",
      image_url |-> "img.png", topic |-> "Hardware"],
     [id |-> TRUE, title |-> "Title", link |-> Undefined,
      image_url |-> "img.png", topic |-> "Hardware"],
     [id |-> TRUE, title |-> "Title", link |-> "articles/x.html",
      image_url |-> Undefined, topic |-> Undefined]}

\* A list of such articles; an id, where there is one, names the position.
CardArticles(f) ==
    [i \in DOMAIN f |-> [id |-> IF f[i].id THEN "a" \o ToString(i) ELSE Undefined,
                         title |-> f[i].title,
                         link |-> f[i].link,
                         image_url |-> f[i].image_url,
                         topic |-> f[i].topic,
                         is_breaking |-> FALSE,
                         published_age |-> 7]]

InitCards ==
    /\ \E n \in 0..MaxCards :
          \E f \in [1..n -> CardKinds] :
             args = [fn |-> "renderArticleCardList",
                     articles |-> CardArticles(f),
                     emptyMessage |-> "No articles found."]
    /\ returned = [done |-> FALSE, value |-> 0]
    /\ NoLoad
    /\ NoSpeech /\ NoSearch /\ NoPush
    /\ articles = <<>>
    /\ containerWidth = 300
    /\ mouseInside = FALSE
    /\ Unrendered

CallRenderArticleCardList ==
    /\ args.fn = "renderArticleCardList"
    /\ ~returned.done
    /\ returned' = [done |-> TRUE,
                    value |-> renderArticleCardList(args.articles, args.emptyMessage)]
    /\ UNCHANGED <<args, svars, loop, pvars, lvars, ovars>>

SpecCards == InitCards /\ [][CallRenderArticleCardList]_vars

\* ------------------------------------------------------------ page loaders
MAX_HOME_PAGE_ARTICLES == 20
LATEST_NEWS_GRID_COUNT == 8
TRENDING_NEWS_COUNT == 4
SIDEBAR_DEFAULT_ITEM_COUNT == 5
AVG_SIDEBAR_ITEM_HEIGHT_PX == 110
MAX_SIDEBAR_ITEMS == 10

MinOf(a, b) == IF a < b THEN a ELSE b

MaxOf(a, b) == IF a > b THEN a ELSE b

\* How the fetch of '/all_articles.json' can settle: the fetch rejects, the
\* status is not a success, the body does not parse, the parsed body has no
\* articles, or the feed arrives.
Responses ==
    {[kind |-> "network-error", rejected |-> TRUE, ok |-> FALSE,
      parses |-> FALSE, hasArticles |-> FALSE],
     [kind |-> "http-error", rejected |-> FALSE, ok |-> FALSE,
      parses |-> TRUE, hasArticles |-> TRUE],
     [kind |-> "malformed-json", rejected |-> FALSE, ok |-> TRUE,
      parses |-> FALSE, hasArticles |-> FALSE],
     [kind |-> "no-articles", rejected |-> FALSE, ok |-> TRUE,
      parses |-> TRUE, hasArticles |-> FALSE],
     [kind |-> "ok", rejected |-> FALSE, ok |-> TRUE,
      parses |-> TRUE, hasArticles |-> TRUE]}

\* FetchThrows that takes a body without articles for a feed.
FetchThrows_acceptsMissingArticles(r) == r.rejected \/ ~r.ok \/ ~r.parses

\* The head of every loader's try block throws: await fetch(...) on a
\* rejection, !response.ok, await response.json() on a body that does not
\* parse, !data?.articles.
FetchThrows(r) == r.rejected \/ ~r.ok \/ ~r.parses \/ ~r.hasArticles

\* Content of an element: a placeholder paragraph (class 'placeholder', with
\* 'error' or without) or a list of items.
StaticContent == [placeholder |-> "<static>", error |-> FALSE, cards |-> <<>>]

Placeholder(message) == [placeholder |-> message, error |-> FALSE, cards |-> <<>>]

ErrorPlaceholder(message) ==
    [placeholder |-> message, error |-> TRUE, cards |-> <<>>]

\* element.textContent = text
TextContent(text) == [placeholder |-> text, error |-> FALSE, cards |-> <<>>]

\* The page with the given elements, as the server sent it.
StaticPage(elements) == [e \in elements |-> StaticContent]

\* document.querySelector / getElementById finds the element.
Exists(e) == e \in DOMAIN regions

\* The regions after the listed writes; a write to an element the page does
\* not have is skipped (the null checks of the loaders and renderers).
Written(writes) ==
    [e \in DOMAIN regions |->
        IF e \in DOMAIN writes THEN writes[e] ELSE regions[e]]

\* ----------------------------------------------------------- sidebar lists
\* (a.tags || [])
TagsOf(a) == IF "tags" \in DOMAIN a THEN a.tags ELSE <<>>

\* (a.tags || []).filter(t => currentArticleTags.includes(t)).length
sharedTags(a, currentArticleTags) ==
    Len(SelectSeq(TagsOf(a), LAMBDA t : listIncludes(currentArticleTags, t)))

\* Scores are kept as multiples of 1/72, which makes the recency bonus of an
\* article published a whole number of hours ago an integer:
\* Math.max(0, 1 - age/(30 days)) * 10 = (720 - hours)/72.
ScoreScale == 72

HoursIn30Days == 24 * 30

recencyBonus(a) ==
    IF a.published_age = NoDate THEN 0
    ELSE MaxOf(0, HoursIn30Days - a.published_age)

\* The score the related list gives a candidate, times ScoreScale.
relatedScore(a, currentArticleTopic, currentArticleTags) ==
    (IF a.topic = currentArticleTopic THEN 500 * ScoreScale ELSE 0)
    + sharedTags(a, currentArticleTags) * 50 * ScoreScale
    + recencyBonus(a)

\* Array.prototype.sort with (a, b) => b.score - a.score on the scored
\* candidates: descending and stable.
RECURSIVE InsertByScore(_, _)
InsertByScore(x, s) ==
    IF s = <<>> THEN <<x>>
    ELSE IF Head(s).score > x.score
         THEN <<Head(s)>> \o InsertByScore(x, Tail(s))
         ELSE <<x>> \o s

RECURSIVE SortByScore(_)
SortByScore(s) ==
    IF s = <<>> THEN <<>> ELSE InsertByScore(Head(s), SortByScore(Tail(s)))

\* numItemsForSidebarTarget for an article body of the given offsetHeight
\* (0: no body element, or one without height).
numItemsForSidebarTarget(height) ==
    LET calculatedItems == height \div AVG_SIDEBAR_ITEM_HEIGHT_PX
    IN IF height > 0
       THEN IF calculatedItems > SIDEBAR_DEFAULT_ITEM_COUNT
            THEN MinOf(MAX_SIDEBAR_ITEMS, calculatedItems + 1)
            ELSE MinOf(MAX_SIDEBAR_ITEMS,
                       MaxOf(SIDEBAR_DEFAULT_ITEM_COUNT, calculatedItems))
       ELSE SIDEBAR_DEFAULT_ITEM_COUNT

\* allArticles.filter(a => a.id !== currentArticleId).slice(0, target)
latestSidebarArticles_candidates(allArticles, currentArticleId, target) ==
    Slice(SelectSeq(allArticles, LAMBDA a : a.id # currentArticleId), target)

\* relatedArticles_candidates that keeps the candidates of low score.
relatedArticles_candidates_keepsAll(allArticles, current, target) ==
    LET others == SelectSeq(allArticles, LAMBDA a : a.id # current.id)
        scored == [i \in 1..Len(others) |->
                     [article |-> others[i],
                      score |-> relatedScore(others[i], current.topic,
                                             current.tags)]]
        sorted == SortByScore(scored)
    IN Slice([i \in 1..Len(sorted) |-> sorted[i].article], target)

\* The candidates with their scores, the low ones dropped, best first.
relatedArticles_candidates(allArticles, current, target) ==
    LET others == SelectSeq(allArticles, LAMBDA a : a.id # current.id)
        scored == [i \in 1..Len(others) |->
                     [article |-> others[i],
                      score |-> relatedScore(others[i], current.topic,
                                             current.tags)]]
        kept == SelectSeq(scored, LAMBDA c : c.score >= 10 * ScoreScale)
        sorted == SortByScore(kept)
    IN Slice([i \in 1..Len(sorted) |-> sorted[i].article], target)

\* ------------------------------------------------------- homepage renderers
predefinedTopics ==
    <<"AI Models", "Hardware", "Software", "Robotics", "Compute", "Research",
      "Open Source", "Business", "Startups", "Finance", "Health", "Society",
      "Ethics", "Regulation", "Art & Media", "Environment", "Education",
      "Security", "Gaming", "Transportation">>

\* A list of items in an element.
Items(list) == [placeholder |-> "", error |-> FALSE, cards |-> list]

\* The content renderTopics leaves in the topics list: one button per topic.
renderTopics == Items(predefinedTopics)

TRENDING_PLACEHOLDER_IMAGE == "https://via.placeholder.com/80x60?text=N/A"

\* The content renderTrendingNews leaves in the trending list.
renderTrendingNews(list) ==
    IF Len(list) = 0 THEN Placeholder("No articles.")
    ELSE LET articlesToShow == Slice(SortByTrend(list), TRENDING_NEWS_COUNT)
         IN Items([i \in 1..Len(articlesToShow) |->
                     [href |-> "/" \o articlesToShow[i].link,
                      image |-> OrElse(articlesToShow[i].image_url,
                                       TRENDING_PLACEHOLDER_IMAGE),
                      title |-> OrElse(articlesToShow[i].title, "Untitled")]])

\* The hrefs of the slider items in the banner after renderBreakingNews(as).
bannerArticleLinks(as) ==
    {"/" \o SelectSlides(as).slides[i].link :
        i \in 1..Len(SelectSlides(as).slides)}

\* The articles loadHomepageData hands to renderLatestNewsGrid; links are
\* the hrefs found in the banner.
articlesForGrid(allArticles, links) ==
    Slice(SelectSeq(allArticles,
                    LAMBDA a : ~isRecentBreaking(a) /\ ("/" \o a.link) \notin links),
          LATEST_NEWS_GRID_COUNT)

\* ------------------------------------------------------------- the loaders
\* An entry of the articles array that is null.
NullEntry == [null |-> TRUE]

IsNull(a) == "null" \in DOMAIN a

HasNullEntry(feed) == \E i \in 1..Len(feed) : IsNull(feed[i])

Calling(fn) == args.fn = fn /\ promise = "none"

Awaiting(fn) == args.fn = fn /\ promise = "pending"

\* loadHomepageData up to its fetch.
loadHomepageData_call ==
    /\ Calling("loadHomepageData")
    /\ promise' = "pending"
    /\ UNCHANGED <<svars, loop, pvars, qvars, response, regions, ovars>>

\* loadHomepageData from the moment its fetch settles.  A throw in the try
\* block lands in the catch block, which writes the error paragraph into the
\* track (or the banner content when there is no track), the grid, the topics
\* list and the trending list.  A null entry of the feed makes the first
\* filter that reads one of its fields throw a TypeError: the filter of
\* renderBreakingNews, after the track was emptied and the interval cleared,
\* or, when renderBreakingNews returned early, the filter for the grid.
\* Otherwise the banner, the grid, the topics
\* and the trending list are rendered; renderBreakingNews hides the section
\* when the slider's elements are missing.
loadHomepageData_settle ==
    /\ Awaiting("loadHomepageData")
    /\ \E r \in Responses :
          LET errorMsg == ErrorPlaceholder("Error loading content.")
              banner == IF Exists("slider-track") THEN "slider-track"
                        ELSE "breaking-news-content"
              sliderFound == Exists("breaking-news-content") /\ Exists("slider-track")
              bannerAndTrendingArticles == Slice(args.feed, MAX_HOME_PAGE_ARTICLES)
              links == IF sliderFound
                       THEN bannerArticleLinks(bannerAndTrendingArticles)
                       ELSE {}
              shown == SelectSlides(bannerAndTrendingArticles).slides
              c0 == IF autoSlideInterval # "null" THEN clearInterval(Cur) ELSE Cur
          IN /\ response' = r
             /\ promise' = "fulfilled"
             /\ UNCHANGED <<qvars, ovars>>
             /\ IF FetchThrows(r)
                THEN /\ regions' = Written([e \in {banner, "latest-news-grid",
                                                   "topics-list",
                                                   "trending-news-list"} |->
                                              errorMsg])
                     /\ UNCHANGED <<svars, loop, pvars>>
                ELSE IF HasNullEntry(args.feed)
                THEN /\ regions' = Written([e \in {banner, "latest-news-grid",
                                                   "topics-list",
                                                   "trending-news-list"} |->
                                              errorMsg])
                     /\ IF sliderFound
                        THEN /\ renders' = renders + 1
                             /\ trackNodes' = <<>>
                             /\ Commit("render", c0)
                             /\ UNCHANGED <<Env, loop, articles, sectionDisplay,
                                            labelText, controls, listenerSets,
                                            stale>>
                        ELSE /\ sectionDisplay' = "none"
                             /\ UNCHANGED <<svars, loop, articles, renders,
                                            labelText, trackNodes, controls,
                                            listenerSets, stale>>
                ELSE /\ IF sliderFound
                        THEN /\ articles = bannerAndTrendingArticles
                             /\ renderBreakingNews
                        ELSE /\ sectionDisplay' = "none"
                             /\ UNCHANGED <<svars, loop, articles, renders,
                                            labelText, trackNodes, controls,
                                            listenerSets, stale>>
                     /\ regions' =
                          Written([e \in {"slider-track", "latest-news-grid",
                                          "topics-list", "trending-news-list"} |->
                             CASE e = "slider-track" ->
                                    Items(EffectiveOf(
                                       [i \in 1..Len(shown) |-> shown[i].id]))
                               [] e = "latest-news-grid" ->
                                    renderArticleCardList(
                                       articlesForGrid(args.feed, links),
                                       "No recent news available.")
                               [] e = "topics-list" -> renderTopics
                               [] e = "trending-news-list" ->
                                    renderTrendingNews(
                                       Slice(bannerAndTrendingArticles,
                                             TRENDING_NEWS_COUNT))])

\* loadGenericPageData up to its fetch: nothing happens on a page without the
\* content area or the title.
loadGenericPageData_call ==
    /\ Calling("loadGenericPageData")
    /\ IF ~Exists("page-content-area") \/ ~Exists("page-title")
       THEN /\ promise' = "fulfilled"
            /\ UNCHANGED regions
       ELSE /\ promise' = "pending"
            /\ regions' = Written([e \in {"page-content-area"} |->
                                     Placeholder("Loading...")])
    /\ UNCHANGED <<svars, loop, pvars, qvars, response, ovars>>

\* The title, the list and the message for an empty list of a generic page.
\* A topic name is one decodeURIComponent leaves as it is.
GenericPage(pageType, topicName, sourceArticles) ==
    IF pageType = "latest"
    THEN [pageTitle |-> "All News", articlesToDisplay |-> sourceArticles,
          emptyMessage |-> "No news available."]
    ELSE IF pageType = "topic" /\ ~Falsy(topicName)
    THEN [pageTitle |-> "Topic: " \o topicName,
          articlesToDisplay |->
             SelectSeq(sourceArticles,
                       LAMBDA a : \/ a.topic = topicName
                                  \/ listIncludes(TagsOf(a), topicName)),
          emptyMessage |-> "No articles for topic \"" \o topicName \o "\"."]
    ELSE [pageTitle |-> "Not Found", articlesToDisplay |-> <<>>,
          emptyMessage |-> "Content not found."]

\* loadGenericPageData from the moment its fetch settles.
loadGenericPageData_settle ==
    /\ Awaiting("loadGenericPageData")
    /\ \E r \in Responses :
          LET page == GenericPage(args.pageType, args.topicName, args.feed)
          IN /\ response' = r
             /\ promise' = "fulfilled"
             /\ regions' =
                  IF FetchThrows(r)
                  THEN Written([e \in {"page-title", "page-content-area"} |->
                                  IF e = "page-title" THEN TextContent("Error")
                                  ELSE ErrorPlaceholder("Could not load.")])
                  ELSE Written([e \in {"page-title", "page-content-area"} |->
                                  IF e = "page-title"
                                  THEN TextContent(page.pageTitle)
                                  ELSE renderArticleCardList(
                                          page.articlesToDisplay,
                                          page.emptyMessage)])
    /\ UNCHANGED <<svars, loop, pvars, qvars, ovars>>

\* loadLatestNewsFor404 up to its fetch.
loadLatestNewsFor404_call ==
    /\ Calling("loadLatestNewsFor404")
    /\ IF ~Exists("page-content-area")
       THEN /\ promise' = "fulfilled"
            /\ UNCHANGED regions
       ELSE /\ promise' = "pending"
            /\ regions' = Written([e \in {"page-content-area"} |->
                                     Placeholder("Loading latest news...")])
    /\ UNCHANGED <<svars, loop, pvars, qvars, response, ovars>>

\* loadLatestNewsFor404 from the moment its fetch settles.
loadLatestNewsFor404_settle ==
    /\ Awaiting("loadLatestNewsFor404")
    /\ \E r \in Responses :
          /\ response' = r
          /\ promise' = "fulfilled"
          /\ regions' =
               Written([e \in {"page-content-area"} |->
                  IF FetchThrows(r)
                  THEN ErrorPlaceholder("Error loading latest news.")
                  ELSE renderArticleCardList(
                          Slice(args.feed, LATEST_NEWS_GRID_COUNT),
                          "No recent news available.")])
    /\ UNCHANGED <<svars, loop, pvars, qvars, ovars>>

\* loadSidebarData up to its fetch: without a main article the two lists get
\* their loading message, without either list nothing happens.
loadSidebarData_call ==
    /\ Calling("loadSidebarData")
    /\ IF ~Exists("main-article")
       THEN /\ promise' = "fulfilled"
            /\ regions' =
                 Written([e \in {"latest-news-content", "related-news-content"} |->
                    IF e = "latest-news-content"
                    THEN renderArticleCardList(<<>>, "Loading news...")
                    ELSE renderArticleCardList(<<>>, "Loading related...")])
       ELSE IF ~Exists("related-news-content") /\ ~Exists("latest-news-content")
       THEN /\ promise' = "fulfilled"
            /\ UNCHANGED regions
       ELSE /\ promise' = "pending"
            /\ UNCHANGED regions
    /\ UNCHANGED <<svars, loop, pvars, qvars, response, ovars>>

\* What the sidebar shows for a feed: the latest list and the related list,
\* both cut to the shorter of the two when the page has both.
SidebarLists(allArticles, current, height, hasLatest, hasRelated) ==
    LET target == numItemsForSidebarTarget(height)
        latest == IF hasLatest
                  THEN latestSidebarArticles_candidates(allArticles, current.id,
                                                        target)
                  ELSE <<>>
        related == IF hasRelated
                   THEN relatedArticles_candidates(allArticles, current, target)
                   ELSE <<>>
        finalItemCount ==
            IF hasLatest /\ hasRelated
            THEN MinOf(target, MinOf(Len(latest), Len(related)))
            ELSE IF hasLatest THEN MinOf(target, Len(latest))
            ELSE IF hasRelated THEN MinOf(target, Len(related))
            ELSE target
    IN [latest |-> Slice(latest, finalItemCount),
        related |-> Slice(related, finalItemCount)]

\* loadSidebarData from the moment its fetch settles.
loadSidebarData_settle ==
    /\ Awaiting("loadSidebarData")
    /\ \E r \in Responses :
          LET height == IF Exists("article-body") THEN args.bodyHeight ELSE 0
              lists == SidebarLists(args.feed, args.current, height,
                                    Exists("latest-news-content"),
                                    Exists("related-news-content"))
          IN /\ response' = r
             /\ promise' = "fulfilled"
             /\ regions' =
                  Written([e \in {"latest-news-content", "related-news-content"} |->
                     IF FetchThrows(r)
                     THEN IF e = "latest-news-content"
                          THEN ErrorPlaceholder("Error loading latest")
                          ELSE ErrorPlaceholder("Error loading related")
                     ELSE IF e = "latest-news-content"
                          THEN renderArticleCardList(lists.latest, "No recent news.")
                          ELSE renderArticleCardList(lists.related,
                                                     "No related news.")])
    /\ UNCHANGED <<svars, loop, pvars, qvars, ovars>>

\* ------------------------------------------------------ loader environments
\* A feed of the given articles; id and link name the position in the feed,
\* unless the entry is null or comes with a link of its own.
FeedOf(f) ==
    [i \in DOMAIN f |->
        IF IsNull(f[i]) THEN f[i]
        ELSE f[i] @@ [id |-> "a" \o ToString(i),
                      link |-> "articles/a" \o ToString(i) \o ".html"]]

\* Articles of the feed the loaders are run on: a complete one, a fresh
\* breaking one without image, and one without title, topic, tags and date.
LoadKinds ==
    {[title |-> "Title", image_url |-> "img.png", topic |-> "Hardware",
      tags |-> <<"gpu">>, is_breaking |-> FALSE, published_age |-> 7,
      trend_score |-> 1],
     [title |-> "Title", image_url |-> Undefined, topic |-> "Software",
      tags |-> <<"Hardware">>, is_breaking |-> TRUE, published_age |-> 1,
      trend_score |-> 2],
     [title |-> "", image_url |-> "img.png", topic |-> Undefined,
      is_breaking |-> FALSE, published_age |-> NoDate, trend_score |-> 3]}

\* A loader is about to be called with the given inputs on a page with the
\* given elements; articles is what loadHomepageData will hand to
\* renderBreakingNews.
LoaderCalled(a, elements) ==
    /\ args = a
    /\ regions = StaticPage(elements)
    /\ articles = IF a.fn = "loadHomepageData"
                  THEN Slice(a.feed, MAX_HOME_PAGE_ARTICLES)
                  ELSE <<>>
    /\ promise = "none"
    /\ response = [kind |-> "none"]
    /\ returned = [done |-> FALSE, value |-> 0]
    /\ NoSpeech /\ NoSearch /\ NoPush
    /\ containerWidth = 300
    /\ mouseInside = FALSE
    /\ Unrendered

\* Entries the homepage is also run on: a null entry and an article without
\* link.
MalformedKinds ==
    {NullEntry,
     [title |-> "Title", image_url |-> "img.png", topic |-> "Hardware",
      link |-> Undefined, is_breaking |-> FALSE, published_age |-> 7,
      trend_score |-> 2]}

\* One of the four loaders on a page that has any of the elements the loader
\* looks up (the slider track sits inside the banner content).
InitLoad ==
    \/ \E n \in 0..MaxLoadFeed :
          \E f \in [1..n -> LoadKinds \cup MalformedKinds] :
             \E slider \in {{}, {"breaking-news-content"},
                             {"breaking-news-content", "slider-track"}},
                others \in SUBSET {"latest-news-grid", "topics-list",
                                   "trending-news-list"} :
                LoaderCalled([fn |-> "loadHomepageData", feed |-> FeedOf(f)],
                             slider \cup others)
    \/ \E n \in 0..MaxLoadFeed :
       \E f \in [1..n -> LoadKinds] :
          \/ \E elements \in SUBSET {"page-content-area", "page-title"},
                pageType \in {"latest", "topic", "about"},
                topicName \in {"Hardware", Undefined} :
                LoaderCalled([fn |-> "loadGenericPageData", feed |-> FeedOf(f),
                              pageType |-> pageType, topicName |-> topicName],
                             elements)
          \/ \E elements \in SUBSET {"page-content-area"} :
                LoaderCalled([fn |-> "loadLatestNewsFor404", feed |-> FeedOf(f)],
                             elements)
          \/ \E elements \in SUBSET {"main-article", "latest-news-content",
                                     "related-news-content"} :
                LoaderCalled([fn |-> "loadSidebarData", feed |-> FeedOf(f),
                              current |-> [id |-> "a1", topic |-> "Hardware",
                                           tags |-> <<"gpu">>],
                              bodyHeight |-> 700],
                             elements \cup {"article-body"})

LoadNext ==
    \/ loadHomepageData_call
    \/ loadHomepageData_settle
    \/ loadGenericPageData_call
    \/ loadGenericPageData_settle
    \/ loadLatestNewsFor404_call
    \/ loadLatestNewsFor404_settle
    \/ loadSidebarData_call
    \/ loadSidebarData_settle

SpecLoad == InitLoad /\ [][LoadNext]_vars

\* Candidates for the related list next to an article of topic Hardware with
\* tags gpu and ai: the same topic, two shared tags on an undated article,
\* nothing in common but published this hour (the recency bonus alone is
\* 10), and nothing in common and published an hour ago (just under 10).
SidebarKinds ==
    {[title |-> "Title", image_url |-> "img.png", topic |-> "Hardware",
      tags |-> <<"cpu">>, is_breaking |-> FALSE, published_age |-> 800,
      trend_score |-> 1],
     [title |-> "Title", image_url |-> "img.png", topic |-> "Software",
      tags |-> <<"ai", "llm", "gpu">>, is_breaking |-> FALSE,
      published_age |-> NoDate, trend_score |-> 1],
     [title |-> "Title", image_url |-> "img.png", topic |-> "Software",
      is_breaking |-> FALSE, published_age |-> 0, trend_score |-> 1],
     [title |-> "Title", image_url |-> "img.png", topic |-> "Software",
      tags |-> <<"llm">>, is_breaking |-> FALSE, published_age |-> 1,
      trend_score |-> 1]}

\* loadSidebarData on an article page; the current article is the first of
\* the feed or not in it, its body short or tall enough for seven items.
InitSidebar ==
    \E n \in 0..MaxSidebarFeed :
       \E f \in [1..n -> SidebarKinds] :
          \E id \in {"a1", "a0"}, bodyHeight \in {0, 700},
             latest \in SUBSET {"latest-news-content"} :
             LoaderCalled([fn |-> "loadSidebarData", feed |-> FeedOf(f),
                           current |-> [id |-> id, topic |-> "Hardware",
                                        tags |-> <<"gpu", "ai">>],
                           bodyHeight |-> bodyHeight],
                          {"main-article", "article-body",
                           "related-news-content"} \cup latest)

SidebarNext ==
    \/ loadSidebarData_call
    \/ loadSidebarData_settle

SpecSidebar == InitSidebar /\ [][SidebarNext]_vars

\* Candidates that have nothing in common with the current article and differ
\* in their date: published_iso a day ahead of the reader's clock, now, 15
\* days ago, 30 days ago, later than that, and no date at all.
MaxRecencyFeed == 3

RecencyAges == {-24, 0, 360, 720, 800, NoDate}

RecencyKinds ==
    {[title |-> "Title", image_url |-> "img.png", topic |-> "Software",
      is_breaking |-> FALSE, published_age |-> age, trend_score |-> 1] :
       age \in RecencyAges}

InitRecency ==
    \E n \in 0..MaxRecencyFeed :
       \E f \in [1..n -> RecencyKinds] :
          \E latest \in SUBSET {"latest-news-content"} :
             LoaderCalled([fn |-> "loadSidebarData", feed |-> FeedOf(f),
                           current |-> [id |-> "a0", topic |-> "Hardware",
                                        tags |-> <<"gpu", "ai">>],
                           bodyHeight |-> 0],
                          {"main-article", "article-body",
                           "related-news-content"} \cup latest)

SpecRecency == InitRecency /\ [][SidebarNext]_vars

\* ---------------------------------------------------------- search results
MaxSearchFeed == 6

\* sourceArticles.map(a => ({ ...a, score: calculateSearchScore(a, tokens) }))
\*               .filter(a => a.score > 0).sort((a, b) => b.score - a.score)
searchResults(sourceArticles, tokens) ==
    SortByScore(
        SelectSeq([i \in DOMAIN sourceArticles |->
                      [score |-> calculateSearchScore(sourceArticles[i], tokens)]
                      @@ sourceArticles[i]],
                  LAMBDA a : a.score > 0))

\* Array.prototype.slice(0, n)
slice0(list, n) == SubSeq(list, 1, MinOf(n, Len(list)))

\* The matches showSuggestions appends for the trimmed, lowercased query.
suggestionMatches(data, query, forceShow) ==
    IF Len(query) > 0
    THEN slice0(searchResults(data, SplitWords(query)), 5)
    ELSE IF forceShow THEN slice0(data, 5) ELSE <<>>

\* Feed articles of the search inputs: "chip" inside a longer word of the
\* title, the words "ai chip" as title, no title and the topic "AI".
TitledChips ==
    [title |-> S_chips, topic |-> S_empty, tags |-> <<>>, summary_short |-> S_empty]

TitledAiChip ==
    [title |-> S_ai_chip, topic |-> S_empty, tags |-> <<>>,
     summary_short |-> S_empty]

TopicAI ==
    [title |-> S_empty, topic |-> S_AI, tags |-> <<>>, summary_short |-> S_empty]

ResultKinds == {TitledChips, TitledAiChip, TopicAI}

ResultQueries == {S_chip, S_AI, S_punctuation}

\* The feed with the position of each article as its id.
NumberedFeed(f) == [i \in DOMAIN f |-> [id |-> i] @@ f[i]]

InitResults ==
    /\ \E n \in 0..MaxSearchFeed :
          \E f \in [1..n -> ResultKinds] :
             \/ \E q \in ResultQueries :
                   args = [fn |-> "loadGenericPageData", feed |-> NumberedFeed(f),
                           query |-> q, forceShow |-> FALSE]
             \/ \E q \in ResultQueries \cup {S_empty}, forceShow \in BOOLEAN :
                   args = [fn |-> "showSuggestions", feed |-> NumberedFeed(f),
                           query |-> q, forceShow |-> forceShow]
    /\ returned = [done |-> FALSE, value |-> <<>>]
    /\ NoLoad
    /\ NoSpeech /\ NoSearch /\ NoPush
    /\ articles = <<>>
    /\ containerWidth = 300
    /\ mouseInside = FALSE
    /\ Unrendered

\* The search branch of loadGenericPageData (pageType 'search', a truthy q).
SearchPage ==
    /\ args.fn = "loadGenericPageData"
    /\ ~returned.done
    /\ returned' = [done |-> TRUE,
                    value |-> searchResults(args.feed, TokensOf(args.query))]
    /\ UNCHANGED <<args, svars, loop, pvars, lvars, ovars>>

\* showSuggestions once its feed has arrived.
ShowSuggestions ==
    /\ args.fn = "showSuggestions"
    /\ ~returned.done
    /\ returned' = [done |-> TRUE,
                    value |-> suggestionMatches(args.feed,
                                                toLowerCase(args.query),
                                                args.forceShow)]
    /\ UNCHANGED <<args, svars, loop, pvars, lvars, ovars>>

ResultsNext == SearchPage \/ ShowSuggestions

SpecResults == InitResults /\ [][ResultsNext]_vars

\* ------------------------------------------------------------ text to speech
\* Calls of speakText in a run.
MaxUtterances == 3

\* Two listen buttons of the page.
Buttons == {"A", "B"}

\* The page with nothing but the slider, the loaders and the scorer at rest.
PageAtRest ==
    /\ NoCall
    /\ NoLoad
    /\ articles = <<>>
    /\ containerWidth = 300
    /\ mouseInside = FALSE
    /\ Unrendered

\* currentUtterance, currentPlayingButton, the buttons and the synthesizer.
Tts ==
    [currentUtterance |-> currentUtterance,
     currentPlayingButton |-> currentPlayingButton,
     ttsButtons |-> ttsButtons,
     synth |-> synth]

TtsBecomes(t) ==
    /\ currentUtterance' = t.currentUtterance
    /\ currentPlayingButton' = t.currentPlayingButton
    /\ ttsButtons' = t.ttsButtons
    /\ synth' = t.synth

\* synth.speaking, synth.pending
speaking(t) ==
    \E i \in DOMAIN t.synth.utterances : t.synth.utterances[i].status = "speaking"

pending(t) ==
    \E i \in DOMAIN t.synth.utterances : t.synth.utterances[i].status = "pending"

\* The utterance of the given index gets the given status.
WithStatus(t, i, status) ==
    [t EXCEPT !.synth.utterances[i].status = status]

\* A button is "idle" (headphones icon, enabled), "loading" (spinner,
\* disabled), "playing" (pause icon) or "paused" (play icon).
resetTTSButtonState(t, button) == [t EXCEPT !.ttsButtons[button] = "idle"]

\* synth.cancel(): every utterance leaves the queue; the one being spoken is
\* interrupted, a queued one canceled, and each is told so later.  The paused
\* state of the synthesizer stays as it is.
cancel(t) ==
    LET us == t.synth.utterances
    IN [t EXCEPT !.synth.utterances =
           [i \in DOMAIN us |->
               IF us[i].status = "speaking"
               THEN [us[i] EXCEPT !.status = "interrupted"]
               ELSE IF us[i].status = "pending"
               THEN [us[i] EXCEPT !.status = "canceled"]
               ELSE us[i]]]

cancelSpeech(t) ==
    LET t1 == IF speaking(t) \/ pending(t) THEN cancel(t) ELSE t
        t2 == IF t1.currentPlayingButton # "null"
              THEN resetTTSButtonState(t1, t1.currentPlayingButton)
              ELSE t1
    IN [t2 EXCEPT !.currentUtterance = 0, !.currentPlayingButton = "null"]

\* speakText with a text and a button: the new utterance is tracked and
\* handed to synth.speak.
speakText(t, button) ==
    LET us == Append(t.synth.utterances, [button |-> button, status |-> "pending"])
    IN [t EXCEPT !.ttsButtons[button] = "loading",
                 !.synth.utterances = us,
                 !.currentUtterance = Len(us),
                 !.currentPlayingButton = button]

\* The callbacks speakText gives the utterance of the button.
onstart(t, button) ==
    IF t.currentPlayingButton = button
    THEN [t EXCEPT !.ttsButtons[button] = "playing"]
    ELSE t

onend(t, button) ==
    LET t1 == IF t.currentPlayingButton = button
              THEN resetTTSButtonState(t, button)
              ELSE t
    IN [t1 EXCEPT !.currentUtterance = 0, !.currentPlayingButton = "null"]

onerror(t, button) ==
    LET t1 == resetTTSButtonState(t, button)
    IN IF t1.currentPlayingButton = button
       THEN [t1 EXCEPT !.currentUtterance = 0, !.currentPlayingButton = "null"]
       ELSE t1

\* handleTTSDelegatedClick on a listen button whose card has, or has not, a
\* title to read.
handleTTSDelegatedClick(t, button, hasText) ==
    IF t.currentPlayingButton = button /\ t.currentUtterance # 0
    THEN IF t.synth.paused
         THEN [t EXCEPT !.ttsButtons[button] = "playing", !.synth.paused = FALSE]
         ELSE IF speaking(t)
         THEN [t EXCEPT !.ttsButtons[button] = "paused", !.synth.paused = TRUE]
         ELSE cancelSpeech(t)
    ELSE IF ~hasText
         THEN resetTTSButtonState(cancelSpeech(t), button)
         ELSE speakText(cancelSpeech(t), button)

InitTTS ==
    /\ PageAtRest
    /\ NoSearch
    /\ NoPush
    /\ currentUtterance = 0
    /\ currentPlayingButton = "null"
    /\ ttsButtons = [b \in Buttons |-> "idle"]
    /\ synth = [paused |-> FALSE, utterances |-> <<>>]

NoTTSChange == UNCHANGED <<svars, loop, pvars, qvars, lvars, gvars, wvars>>

\* A click on a listen button; a disabled button gets no click.
TTSClick ==
    /\ \E button \in Buttons, hasText \in BOOLEAN :
          /\ ttsButtons[button] # "loading"
          /\ Len(synth.utterances) < MaxUtterances
          /\ TtsBecomes(handleTTSDelegatedClick(Tts, button, hasText))
    /\ NoTTSChange

\* The synthesizer starts the first utterance of its queue.
SpeechStarts ==
    /\ ~synth.paused
    /\ ~speaking(Tts)
    /\ \E i \in DOMAIN synth.utterances :
          /\ synth.utterances[i].status = "pending"
          /\ \A j \in 1..(i - 1) : synth.utterances[j].status # "pending"
          /\ TtsBecomes(onstart(WithStatus(Tts, i, "speaking"),
                                synth.utterances[i].button))
    /\ NoTTSChange

\* The utterance being spoken comes to its end.
SpeechEnds ==
    /\ ~synth.paused
    /\ \E i \in DOMAIN synth.utterances :
          /\ synth.utterances[i].status = "speaking"
          /\ TtsBecomes(onend(WithStatus(Tts, i, "over"),
                              synth.utterances[i].button))
    /\ NoTTSChange

\* The synthesizer fails on the utterance being spoken.
SpeechFails ==
    /\ \E i \in DOMAIN synth.utterances :
          /\ synth.utterances[i].status = "speaking"
          /\ TtsBecomes(onerror(WithStatus(Tts, i, "over"),
                                synth.utterances[i].button))
    /\ NoTTSChange

\* An utterance that synth.cancel() removed is told so: one that was being
\* spoken by an end event or by an error event (browsers differ), one that
\* was still queued by an error event.
CancelDelivered ==
    /\ \E i \in DOMAIN synth.utterances :
          LET u == synth.utterances[i]
              t == WithStatus(Tts, i, "over")
          IN \/ /\ u.status = "interrupted"
                /\ TtsBecomes(onend(t, u.button))
             \/ /\ u.status \in {"interrupted", "canceled"}
                /\ TtsBecomes(onerror(t, u.button))
    /\ NoTTSChange

TTSNext ==
    \/ TTSClick
    \/ SpeechStarts
    \/ SpeechEnds
    \/ SpeechFails
    \/ CancelDelivered

SpecTTS == InitTTS /\ [][TTSNext]_vars

\* ------------------------------------------------------- search suggestions
\* Calls of showSuggestions in a run.
MaxCalls == 2

\* Feeds behind the search box: none, three and six articles.
SuggestFeeds ==
    {<<>>,
     <<TitledChips, TitledAiChip, TopicAI>>,
     <<TitledChips, TitledAiChip, TopicAI, TitledAiChip, TitledChips, TopicAI>>}

\* String.prototype.trim as far as blanks go
RECURSIVE trim(_)
trim(str) ==
    IF str = <<>> THEN str
    ELSE IF Head(str) = " " THEN trim(Tail(str))
    ELSE IF str[Len(str)] = " " THEN trim(SubSeq(str, 1, Len(str) - 1))
    ELSE str

\* What is typed into the search box.
TypedValues == {S_empty, S_chip, S_AI, <<" ">> \o S_chip}

InitSuggest ==
    /\ \E f \in SuggestFeeds :
          args = [fn |-> "setupSearch", feed |-> NumberedFeed(f)]
    /\ returned = [done |-> FALSE, value |-> 0]
    /\ NoLoad
    /\ NoSpeech
    /\ NoSearch
    /\ NoPush
    /\ articles = <<>>
    /\ containerWidth = 300
    /\ mouseInside = FALSE
    /\ Unrendered

NoSuggestChange == UNCHANGED <<svars, loop, pvars, qvars, lvars, tvars, wvars>>

\* showSuggestions up to its fetch: the query is read, the dropdown emptied
\* and hidden, and the feed requested.
showSuggestions_call(forceShow) ==
    LET query == toLowerCase(trim(searchInput))
    IN /\ Len(calls) < MaxCalls
       /\ suggestionsContainer' = [items |-> <<>>, display |-> "none"]
       /\ calls' = IF ~forceShow /\ Len(query) < 1
                   THEN calls
                   ELSE Append(calls, [query |-> query, forceShow |-> forceShow,
                                       status |-> "pending"])

\* showSuggestions from the moment the fetch of call i settles: the matches
\* for the query the call read are appended to the dropdown.
showSuggestions_settle(i, r) ==
    LET matches == IF FetchThrows(r) THEN <<>>
                   ELSE suggestionMatches(args.feed, calls[i].query,
                                          calls[i].forceShow)
        links == [k \in 1..Len(matches) |-> [id |-> matches[k].id, call |-> i]]
    IN /\ calls' = [calls EXCEPT ![i].status = "settled"]
       /\ suggestionsContainer' =
             IF Len(matches) > 0
             THEN [items |-> suggestionsContainer.items \o links,
                   display |-> "block"]
             ELSE suggestionsContainer

\* An input event: the debounced listener restarts its timer.
InputEvent ==
    /\ \E v \in TypedValues \ {searchInput} : searchInput' = v
    /\ debounceTimeout' = "set"
    /\ UNCHANGED <<calls, suggestionsContainer>>
    /\ NoSuggestChange

\* The timer runs out: showSuggestions is applied to the arguments of the
\* listener, the input event, which is what forceShow then holds.
DebounceFires ==
    /\ debounceTimeout = "set"
    /\ debounceTimeout' = "none"
    /\ showSuggestions_call(TRUE)
    /\ UNCHANGED searchInput
    /\ NoSuggestChange

\* The search box gets the focus.
FocusEvent ==
    /\ showSuggestions_call(TRUE)
    /\ UNCHANGED <<searchInput, debounceTimeout>>
    /\ NoSuggestChange

\* The fetch of one of the calls settles.
SuggestFetchSettles ==
    /\ \E i \in DOMAIN calls, r \in Responses :
          /\ calls[i].status = "pending"
          /\ showSuggestions_settle(i, r)
    /\ UNCHANGED <<searchInput, debounceTimeout>>
    /\ NoSuggestChange

\* A click outside the search container hides the dropdown.
ClickOutside ==
    /\ suggestionsContainer.display = "block"
    /\ suggestionsContainer' = [suggestionsContainer EXCEPT !.display = "none"]
    /\ UNCHANGED <<searchInput, debounceTimeout, calls>>
    /\ NoSuggestChange

SuggestNext ==
    \/ InputEvent
    \/ DebounceFires
    \/ FocusEvent
    \/ SuggestFetchSettles
    \/ ClickOutside

SpecSuggest == InitSuggest /\ [][SuggestNext]_vars

\* ------------------------------------------------------ workflow push loop
\* max_retries of the 'Commit and Push Changes' step.
max_retries == 5

\* Each command of the loop succeeds or fails.
Outcomes == {"ok", "fails"}

InitPush ==
    /\ PageAtRest
    /\ NoSpeech
    /\ NoSearch
    /\ retry_count = 0
    /\ shell = [pc |-> "until", pushed |-> FALSE, exit |-> "running"]
    /\ log = <<"Attempting to push changes...">>

NoPushChange == UNCHANGED <<svars, loop, pvars, qvars, lvars, tvars, gvars>>

\* The condition of the until loop: git push, and when it fails the test of
\* retry_count against max_retries.
UntilCondition ==
    /\ shell.pc = "until"
    /\ \E push \in Outcomes :
          /\ shell' = [shell EXCEPT
                          !.pushed = (push = "ok"),
                          !.pc = IF push = "ok" \/ retry_count >= max_retries
                                 THEN "after" ELSE "body"]
    /\ UNCHANGED <<retry_count, log>>
    /\ NoPushChange

\* The body of the loop: count the attempt, fetch, rebase, on failure merge,
\* on failure of that too leave the step.  The step runs under bash -e, which
\* ends it when git fetch fails.
LoopBody ==
    /\ shell.pc = "body"
    /\ retry_count' = retry_count + 1
    /\ \E fetch \in Outcomes, rebase \in Outcomes, merge \in Outcomes :
          LET failed == "Push failed (Attempt)"
          IN IF fetch = "fails"
             THEN /\ rebase = "ok" /\ merge = "ok"
                  /\ log' = log \o <<failed>>
                  /\ shell' = [shell EXCEPT !.pc = "aborted", !.exit = "1"]
             ELSE IF rebase = "ok"
             THEN /\ merge = "ok"
                  /\ log' = log \o <<failed, "Retrying push">>
                  /\ shell' = [shell EXCEPT !.pc = "until"]
             ELSE IF merge = "ok"
             THEN /\ log' = log \o <<failed, "Rebase before push retry failed",
                                     "Retrying push">>
                  /\ shell' = [shell EXCEPT !.pc = "until"]
             ELSE /\ log' = log \o <<failed, "Rebase before push retry failed",
                                     "::error::Merge also failed during push retry">>
                  /\ shell' = [shell EXCEPT !.pc = "aborted", !.exit = "1"]
    /\ NoPushChange

\* After the loop: the test of retry_count decides what the step reports.
AfterLoop ==
    /\ shell.pc = "after"
    /\ IF retry_count >= max_retries
       THEN /\ log' = Append(log, "::error::Push failed after 5 attempts")
            /\ shell' = [shell EXCEPT !.pc = "ended", !.exit = "1"]
       ELSE /\ log' = Append(log, "Changes pushed successfully.")
            /\ shell' = [shell EXCEPT !.pc = "ended", !.exit = "0"]
    /\ UNCHANGED retry_count
    /\ NoPushChange

PushNext ==
    \/ UntilCondition
    \/ LoopBody
    \/ AfterLoop

SpecPush == InitPush /\ [][PushNext]_vars

\* ================================================================ claims

\* The slide of the slide set that sits at effective position k.
OnSlot(k, i) ==
    /\ k \in 0..(Len(effectiveSlidesData) - 1)
    /\ i \in 0..(totalOriginalSlides - 1)
    /\ EffAt(k) = slidesData[i + 1]

\* C1: for N >= 2, under any interleaving of advances (arrow clicks, swipes,
\* autoplay ticks) and transition completions, logicalIndex is within
\* [0, N-1] and the slide at the displayed track position,
\* EffectiveSlideList[displayIndex], is SlideSet[logicalIndex].
C1_DisplayedSlideIsLogical ==
    needsCloning => OnSlot(currentDisplayIndex, currentLogicalIndex)

\* C2: for N >= 2, displayIndex is a valid index of the effective slide list,
\* 0 <= displayIndex <= N+1, in every reachable state.
C2_DisplayIndexInRange ==
    needsCloning => /\ currentDisplayIndex >= 0
                    /\ currentDisplayIndex <= totalOriginalSlides + 1

\* C3 as stated: displayIndex = logicalIndex + 1 when the slide set is cloned
\* and displayIndex = logicalIndex when it is not, in every reachable state.
C3_DisplayIsLogicalPlusOne ==
    currentDisplayIndex =
        IF needsCloning THEN currentLogicalIndex + 1 ELSE currentLogicalIndex

\* C3 amended: when cloned, displayIndex is congruent to logicalIndex + 1
\* modulo N in every reachable state and equal to it whenever displayIndex is
\* on a real slot 1..N (on a clone slot, before the seam correction, it is
\* logicalIndex + 1 - N or logicalIndex + 1 + N); when not cloned,
\* displayIndex = logicalIndex.
C3_DisplayTracksLogical ==
    IF needsCloning
    THEN /\ (currentDisplayIndex - 1 - currentLogicalIndex) % totalOriginalSlides = 0
         /\ currentDisplayIndex \in 1..totalOriginalSlides
               => currentDisplayIndex = currentLogicalIndex + 1
    ELSE currentDisplayIndex = currentLogicalIndex

\* The slider rests on the trailing clone, the seam correction still to come.
C3_OnTrailingClone ==
    /\ needsCloning
    /\ currentDisplayIndex = totalOriginalSlides + 1
    /\ currentLogicalIndex = 0
    /\ animating

\* C4: loop property.  For N >= 2, N forward advances from logical index i
\* with displayIndex i+1, each followed by its transition completion, end with
\* logicalIndex = i, displayIndex = i+1 and the track at the offset of that
\* slot, as at the start.
C4_LoopReturns ==
    (loop.pairs = totalOriginalSlides /\ ~loop.pending)
        => /\ currentLogicalIndex = loop.from
           /\ currentDisplayIndex = loop.from + 1
           /\ trackTransform = -(loop.from + 1) * containerWidth

\* A full loop from logical index 0 has completed on three or more slides.
C4_LoopCompleted ==
    /\ totalOriginalSlides >= 3
    /\ loop.pairs = totalOriginalSlides
    /\ ~loop.pending
    /\ loop.from = 0

\* ------------------------------------------------------ gesture claims
\* Net horizontal displacement and elapsed time of a release event, as
\* handlePointerRelease computes them.
DragDelta(e) == e.clientX - pointerDownX
Elapsed(e) == e.timeStamp - downTimestamp
SwipeDirection(e) == IF DragDelta(e) < 0 THEN 1 ELSE -1

\* The pointerup events whose displacement and elapsed time lie in the given
\* sets, for a release the claims speak about.
UpEventsWhere(deltas, elapsed, buttons, targets) ==
    {[clientX |-> x, timeStamp |-> t, button |-> b, target |-> tg] :
        x \in {c \in ClientXs : c - pointerDownX \in deltas},
        t \in {u \in Times : u >= downTimestamp /\ u - downTimestamp \in elapsed},
        b \in buttons,
        tg \in targets}

SlideTargets == {tg \in Targets : tg.kind = "slide"}
OffControlTargets == {tg \in Targets : tg.kind # "control"}

\* C5 as stated: a pointer-down/pointer-up pair with displacement below 5px
\* and elapsed time below 250ms whose release target is a slide anchor
\* navigates to that slide's link and triggers no Advance.
C5_ShortStillPairNavigates ==
    [][pointerIsDown =>
       \A e \in UpEventsWhere(-4..4, 0..249, {0, 2}, SlideTargets) :
          ReleaseEv("pointerup", e)
          => /\ location' = EffAt(e.target.index)
             /\ last'.advances = 0
             /\ currentLogicalIndex' = currentLogicalIndex
             /\ currentDisplayIndex' = currentDisplayIndex]_vars

\* C5 amended: such a pair navigates to the slide's link and triggers no
\* Advance provided also that the gesture was never marked as a drag (no
\* pointer-move more than 5px away from the pointer-down position) and the
\* button released is the primary one.  Stated on every reachable state with
\* a gesture open, for the state the release handler produces from it.
C5_ClickNavigates ==
    (location = 0 /\ pointerIsDown /\ ~hasDraggedSignificantly) =>
       \A e \in UpEventsWhere(-4..4, 0..249, {0}, SlideTargets) :
          LET r == handlePointerRelease(Cur, e)
          IN /\ r.location = EffAt(e.target.index)
             /\ r.advances = 0
             /\ r.currentLogicalIndex = currentLogicalIndex
             /\ r.currentDisplayIndex = currentDisplayIndex

\* A pointerup resolved as a click: the page went to a slide's link.
C5_Clicked ==
    /\ last.handler = "pointerup"
    /\ last.branch = "click"
    /\ last.advances = 0
    /\ location # 0
    /\ ~hasDraggedSignificantly

\* The displacements and elapsed times the event sets can produce.
Deltas == {c - x : c \in ClientXs, x \in DownXs}
AllElapsed == {u - d : u \in Times, d \in DownTimes}
SwipeDeltas == {d \in Deltas : Abs(d) >= 50}
SnapDeltas == {d \in Deltas : Abs(d) >= 5 /\ Abs(d) < 50}

C7_SnapBackRestores ==
    [][pointerIsDown =>
       \A e \in UpEventsWhere(SnapDeltas, AllElapsed, {0, 2}, Targets) :
          (ReleaseEv("pointerup", e) /\ location' = 0)
          => /\ currentLogicalIndex' = currentLogicalIndex
             /\ currentDisplayIndex' = currentDisplayIndex
             /\ trackTransform' = -currentDisplayIndex * containerWidth]_vars

\* C8: from the pointer-down that starts a gesture until its release no
\* autoplay timer is armed.
C8_NoTimerWhilePointerDown ==
    pointerIsDown => activeTimers = 0

\* C9: after a pointer gesture has ended without navigating away, in whichever
\* branch of the release handler, the track is at
\* -displayIndex x containerWidth, never at the dragged offset.
C9_ReleaseRestoresTrack ==
    (last.handler \in ReleaseHandlers /\ location = 0)
        => trackTransform = -currentDisplayIndex * containerWidth

\* C10: a pointercancel during a gesture is a snap-back: logicalIndex and
\* displayIndex keep their values and nothing is navigated to, whatever the
\* displacement and elapsed time of the cancel event.
C10_CancelSnapsBack ==
    [][pointerIsDown =>
       \A e \in CancelEvents :
          ReleaseEv("pointercancel", e)
          => /\ currentLogicalIndex' = currentLogicalIndex
             /\ currentDisplayIndex' = currentDisplayIndex
             /\ location' = 0]_vars

\* ---------------------------------------------------- construction claims
\* C11: with an empty article feed renderBreakingNews hides the banner
\* section and leaves a terminal state: the track has no slide node, no
\* control is rendered, no autoplay timer is armed, no gesture, hover or
\* resize listener is registered and no event can reach a handler.
C11_EmptyFeedHidesBanner ==
    (renders >= 1 /\ articles = <<>>)
        => /\ sectionDisplay = "none"
           /\ trackNodes = <<>>
           /\ ~controls
           /\ activeTimers = 0
           /\ autoSlideInterval # "live"
           /\ listenerSets = 0
           /\ ~Listening

\* renderBreakingNews has returned from an empty feed.
C11_EmptyRendered ==
    /\ articles = <<>>
    /\ renders >= 1
    /\ last.handler = "render"
    /\ sectionDisplay = "none"

\* The ids of the given articles, in order.
IdsOf(as) == [i \in 1..Len(as) |-> as[i].id]

\* The articles the claim calls breaking: flagged, and published within the
\* last 6 hours.
C12_RecentBreaking ==
    SelectSeq(articles, LAMBDA a : /\ a.is_breaking
                                   /\ a.published_age # NoDate
                                   /\ a.published_age <= 6)

\* C12: after a render the slide set is the first up-to-5 recent breaking
\* articles in feed order, labelled Breaking, if there is one; otherwise it
\* is up-to-5 articles of the feed, labelled Trending, in descending
\* trend_score order and with no article left out that scores higher than one
\* that is in; it never has more than 5 entries.
C12_SlideSelection ==
    renders >= 1 =>
        /\ Len(slidesData) <= 5
        /\ IF Len(C12_RecentBreaking) > 0
           THEN /\ slidesData = IdsOf(Slice(C12_RecentBreaking, 5))
                /\ labelText = "Breaking"
           ELSE /\ Len(slidesData) = (IF Len(articles) < 5 THEN Len(articles) ELSE 5)
                /\ Len(articles) > 0 => labelText = "Trending"
                /\ \A i \in 1..Len(slidesData) : slidesData[i] \in 1..Len(articles)
                /\ \A i, j \in 1..Len(slidesData) :
                      i < j => /\ slidesData[i] # slidesData[j]
                               /\ articles[slidesData[i]].trend_score
                                      >= articles[slidesData[j]].trend_score
                /\ \A i \in 1..Len(slidesData) :
                      \A k \in 1..Len(articles) :
                         (\A j \in 1..Len(slidesData) : slidesData[j] # k)
                            => articles[k].trend_score
                                   <= articles[slidesData[i]].trend_score

\* C13: with exactly one slide there are no boundary clones, no dot or arrow
\* controls and no autoplay timer, at construction and at any later time.
C13_SingleSlideIsStatic ==
    (renders >= 1 /\ totalOriginalSlides = 1)
        => /\ effectiveSlidesData = slidesData
           /\ ~controls
           /\ activeTimers = 0

\* C14: for N >= 2 the render leaves the effective slide list
\* [last, slide 0 .. slide N-1, first], N+2 nodes in that order in the track,
\* displayIndex = 1 and logicalIndex = 0, the track on slot 1.
C14_ConstructionWithClones ==
    (last.handler = "render" /\ totalOriginalSlides >= 2)
        => /\ Len(slidesData) = totalOriginalSlides
           /\ Len(effectiveSlidesData) = totalOriginalSlides + 2
           /\ effectiveSlidesData[1] = slidesData[totalOriginalSlides]
           /\ \A i \in 1..totalOriginalSlides :
                 effectiveSlidesData[i + 1] = slidesData[i]
           /\ effectiveSlidesData[totalOriginalSlides + 2] = slidesData[1]
           /\ trackNodes = effectiveSlidesData
           /\ currentDisplayIndex = 1
           /\ currentLogicalIndex = 0
           /\ trackTransform = -containerWidth

\* A render has built a slider of five slides whose first and last differ.
C14_FiveSlidesBuilt ==
    /\ last.handler = "render"
    /\ totalOriginalSlides = 5
    /\ Len(trackNodes) = 7
    /\ slidesData[1] # slidesData[5]

\* C20: however often the slider is rendered, one autoplay timer and one set
\* of listeners act on it, and a single gesture causes a single state change
\* (a release advances at most once).
C20_OneTimerOneListenerSet ==
    /\ activeTimers <= 1
    /\ listenerSets <= 1
    /\ last.advances <= 1

\* C15: between a mouseenter and the next mouseleave autoplay is suspended,
\* no autoplay timer is armed that could advance the slider, whatever arrow
\* clicks, dot clicks or drag gestures happen during the hover.
C15_HoverSuspendsAutoplay ==
    hovered => activeTimers = 0

\* ---------------------------------------------------------- scorer claims
\* The four fields of the scored article in the priority order of the phrase
\* bonus, lowercased, and the bonus of each.
C16_Field(k) ==
    CASE k = 1 -> <<toLowerCase(args.article.title)>>
      [] k = 2 -> <<toLowerCase(args.article.topic)>>
      [] k = 3 -> [i \in 1..Len(args.article.tags) |->
                      toLowerCase(args.article.tags[i])]
      [] k = 4 -> <<toLowerCase(args.article.summary_short)>>

\* The string x occurs in field k (for the tags: in one of them).
C16_In(k, x) == \E i \in 1..Len(C16_Field(k)) : includes(C16_Field(k)[i], x)

C16_TokenPoints == <<15, 8, 5, 2>>
C16_PhrasePoints == <<50, 25, 15, 10>>

\* Number of tokens of the list that occur in field k.
C16_Hits(k) ==
    Cardinality({i \in 1..Len(args.searchTokens) : C16_In(k, args.searchTokens[i])})

\* C16: calculateSearchScore returns the sum over the tokens of 15 / 8 / 5 / 2
\* for each of title / topic / tags / summary the token occurs in, plus the
\* phrase bonus of the first field in that order that contains the rejoined
\* query (50 / 25 / 15 / 10, one field only), plus 20 when every token is a
\* word of the concatenated text; for the tokens of "ai chip" and an article
\* with only the title "New AI Chip Unveiled" it returns 100.
C16_ScoreIsSumOfAwards ==
    returned.done =>
        LET phrase == join(args.searchTokens)
            first == {k \in 1..4 : C16_In(k, phrase)
                                   /\ \A j \in 1..(k - 1) : ~C16_In(j, phrase)}
            words == SplitWords(C16_Field(1)[1] \o Blank \o C16_Field(2)[1]
                                \o Blank \o join(C16_Field(3))
                                \o Blank \o C16_Field(4)[1])
            all == \A i \in 1..Len(args.searchTokens) :
                      listIncludes(words, args.searchTokens[i])
        IN /\ returned.value =
                 C16_Hits(1) * 15 + C16_Hits(2) * 8 + C16_Hits(3) * 5
                 + C16_Hits(4) * 2
                 + (IF first = {} THEN 0
                    ELSE C16_PhrasePoints[CHOOSE k \in first : TRUE])
                 + (IF all THEN 20 ELSE 0)
           /\ (/\ args.article = [title |-> S_New_AI_Chip_Unveiled,
                                  topic |-> S_empty, tags |-> <<>>,
                                  summary_short |-> S_empty]
               /\ args.searchTokens = <<S_ai, S_chip>>)
              => returned.value = 100

\* The example of the claim has been scored.
C16_ExampleScored ==
    /\ returned.done
    /\ args.article = [title |-> S_New_AI_Chip_Unveiled, topic |-> S_empty,
                       tags |-> <<>>, summary_short |-> S_empty]
    /\ args.searchTokens = <<S_ai, S_chip>>
    /\ returned.value = 100

\* ----------------------------------------------------- card list claims
\* The article has the field: it is there and not empty.
C19_Has(v) == v # Undefined /\ v # ""

\* Positions of the input articles that have id, title and link.
C19_Complete ==
    {i \in 1..Len(args.articles) : /\ C19_Has(args.articles[i].id)
                                   /\ C19_Has(args.articles[i].title)
                                   /\ C19_Has(args.articles[i].link)}

\* C19: renderArticleCardList renders exactly one card, in input order, for
\* each input article that has id, title and link and none for the others;
\* a missing image or topic is replaced by the placeholder image and the
\* topic "News".
C19_OneCardPerCompleteArticle ==
    returned.done =>
        /\ Len(returned.value.cards) = Cardinality(C19_Complete)
        /\ \A i \in C19_Complete :
              LET k == 1 + Cardinality({j \in C19_Complete : j < i})
                  card == returned.value.cards[k]
                  a == args.articles[i]
              IN /\ card.id = a.id
                 /\ card.title = a.title
                 /\ card.href = "/" \o a.link
                 /\ card.image = (IF C19_Has(a.image_url) THEN a.image_url
                                  ELSE PLACEHOLDER_IMAGE)
                 /\ card.topic = (IF C19_Has(a.topic) THEN a.topic ELSE "News")

\* A list was rendered in which an incomplete article stands between two
\* complete ones and one rendered card has the placeholder image.
C19_MixedListRendered ==
    /\ returned.done
    /\ Len(args.articles) = 3
    /\ C19_Complete = {1, 3}
    /\ Len(returned.value.cards) = 2
    /\ returned.value.cards[2].image = PLACEHOLDER_IMAGE
    /\ returned.value.cards[2].topic = "News"

\* C18: when the fetch of the feed fails (network error, non-success status,
\* malformed JSON or no articles field), a page loader ends with an error
\* placeholder in every region it owns that the page has (the banner, the
\* grid, the topics and the trending list of the homepage; the title and the
\* content area of a generic page; the content area of the 404 page; the two
\* sidebar lists), and the promise it returned is never rejected.
C18_FetchFailed ==
    response.kind \in {"network-error", "http-error", "malformed-json",
                       "no-articles"}

C18_ShowsError(e) == e \in DOMAIN regions => regions[e].error

C18_FailedFetchShowsErrors ==
    /\ promise # "rejected"
    /\ (promise = "fulfilled" /\ C18_FetchFailed) =>
          CASE args.fn = "loadHomepageData" ->
                 /\ IF "slider-track" \in DOMAIN regions
                    THEN regions["slider-track"].error
                    ELSE C18_ShowsError("breaking-news-content")
                 /\ C18_ShowsError("latest-news-grid")
                 /\ C18_ShowsError("topics-list")
                 /\ C18_ShowsError("trending-news-list")
            [] args.fn = "loadGenericPageData" ->
                 /\ regions["page-content-area"].error
                 /\ regions["page-title"].placeholder = "Error"
            [] args.fn = "loadLatestNewsFor404" ->
                 regions["page-content-area"].error
            [] args.fn = "loadSidebarData" ->
                 /\ C18_ShowsError("latest-news-content")
                 /\ C18_ShowsError("related-news-content")

\* The homepage, all its regions present, after a feed that did not parse.
C18_HomepageAfterMalformedFeed ==
    /\ args.fn = "loadHomepageData"
    /\ promise = "fulfilled"
    /\ response.kind = "malformed-json"
    /\ DOMAIN regions = {"breaking-news-content", "slider-track",
                         "latest-news-grid", "topics-list",
                         "trending-news-list"}
    /\ regions["slider-track"].error
    /\ regions["trending-news-list"].error
    /\ ~regions["breaking-news-content"].error

\* C17: the related list the sidebar shows never contains the current
\* article; every entry scores at least 10, where the score is 500 for the
\* current topic plus 50 for each of its tags the current article has plus
\* the recency bonus; the entries are in descending order of score, entries
\* of equal score in the order of the feed; and there are at most as many as
\* the target count, which is 5 for an article body without height.  (Scores
\* are compared as multiples of 1/ScoreScale.)
C17_Related == regions["related-news-content"].cards

C17_PositionOf(card) ==
    CHOOSE i \in 1..Len(args.feed) : args.feed[i].id = card.id

C17_Score(i) ==
    LET a == args.feed[i]
        tags == IF "tags" \in DOMAIN a THEN a.tags ELSE <<>>
        shared == {j \in 1..Len(tags) :
                     \E k \in 1..Len(args.current.tags) :
                        args.current.tags[k] = tags[j]}
    IN (IF a.topic = args.current.topic THEN 500 * ScoreScale ELSE 0)
       + 50 * ScoreScale * Cardinality(shared)
       + recencyBonus(a)

C17_Target ==
    IF args.bodyHeight = 0 THEN 5 ELSE numItemsForSidebarTarget(args.bodyHeight)

C21_SeamCorrection ==
    /\ needsCloning
    /\ trackTransition' = "none"
    /\ \/ (currentDisplayIndex = 0
             /\ currentDisplayIndex' = totalOriginalSlides)
       \/ (currentDisplayIndex = totalOriginalSlides + 1
             /\ currentDisplayIndex' = 1)

C21_SeamCorrectedOnCompletion ==
    [][C21_SeamCorrection =>
          /\ TransitionEnd
          /\ transitionendListener
          /\ effectiveSlidesData[currentDisplayIndex' + 1]
                = effectiveSlidesData[currentDisplayIndex + 1]
          /\ slidesData[currentLogicalIndex' + 1]
                = effectiveSlidesData[currentDisplayIndex + 1]
          /\ trackTransform' = -currentDisplayIndex' * containerWidth]_vars

\* The slider after a correction from the leading clone: no gesture was ever
\* started, and the track sits on the last slide without a transition.
C21_CorrectedFromLeadingClone ==
    /\ needsCloning
    /\ downTimestamp = 0
    /\ currentDisplayIndex = totalOriginalSlides
    /\ currentLogicalIndex = totalOriginalSlides - 1
    /\ trackTransition = "none"
    /\ ~animating
    /\ ~transitionendListener

\* C22: for N >= 2, once an advance or a direct navigation has registered
\* the completion listener, and with transition completions delivered, the
\* slider eventually has displayIndex on a real slot 1..N with
\* displayIndex = logicalIndex + 1, whatever pointer-downs and resizes occur
\* while the move is animating.
C22_Settled ==
    /\ currentDisplayIndex \in 1..totalOriginalSlides
    /\ currentDisplayIndex = currentLogicalIndex + 1

C22_SeamEventuallyCorrected ==
    (needsCloning /\ transitionendListener) ~> C22_Settled

\* C23: on the homepage, a feed with a malformed entry (a null entry, an
\* article without link) gives the banner that the remaining articles give:
\* the same slide set, or a hidden section when they give none; nothing is
\* thrown, and the grid, the topics and the trending list show no error.
C23_WellFormed(a) == ~IsNull(a) /\ ~Falsy(a.link)

C23_Remaining == SelectSeq(args.feed, C23_WellFormed)

C23_MalformedEntrySkipped ==
    (/\ args.fn = "loadHomepageData"
     /\ promise = "fulfilled"
     /\ response.kind = "ok"
     /\ DOMAIN regions = {"breaking-news-content", "slider-track",
                          "latest-news-grid", "topics-list",
                          "trending-news-list"}) =>
       /\ \A e \in DOMAIN regions : ~regions[e].error
       /\ slidesData = IdsOf(SelectSlides(C23_Remaining).slides)
       /\ sectionDisplay =
             IF SelectSlides(C23_Remaining).slides = <<>> THEN "none" ELSE "block"

\* C24: the +20 bonus is part of the score exactly when every query token
\* occurs, as a substring the way the per-token points are awarded, in the
\* title, the topic, a tag or the summary.
C24_Bonus ==
    LET phrase == join(args.searchTokens)
        first == {k \in 1..4 : C16_In(k, phrase)
                               /\ \A j \in 1..(k - 1) : ~C16_In(j, phrase)}
    IN returned.value
       - (C16_Hits(1) * 15 + C16_Hits(2) * 8 + C16_Hits(3) * 5 + C16_Hits(4) * 2)
       - (IF first = {} THEN 0 ELSE C16_PhrasePoints[CHOOSE k \in first : TRUE])

C24_EveryTokenAppears ==
    \A i \in 1..Len(args.searchTokens) :
        \E k \in 1..4 : C16_In(k, args.searchTokens[i])

C24_BonusIffEveryTokenAppears ==
    returned.done => C24_Bonus = (IF C24_EveryTokenAppears THEN 20 ELSE 0)

\* ---------------------------------------------------- search result claims
\* No token of the list occurs in the title, the topic, a tag or the summary
\* of the article.
C25_NoTokenOccurs(a, tokens) ==
    LET has(str, t) == includes(toLowerCase(str), t)
    IN \A i \in 1..Len(tokens) :
          /\ ~has(a.title, tokens[i])
          /\ ~has(a.topic, tokens[i])
          /\ \A j \in 1..Len(a.tags) : ~has(a.tags[j], tokens[i])
          /\ ~has(a.summary_short, tokens[i])

C25_Ids(list) == [i \in DOMAIN list |-> list[i].id]

\* C25: for a non-empty query, an article in which no query token occurs is
\* in neither the search results nor the suggestions, and the results are in
\* descending score order with equal scores in feed order.
C25_UnmatchedArticlesAbsent ==
    (returned.done /\ args.query # S_empty) =>
        LET tokens == TokensOf(args.query)
            shown == returned.value
        IN /\ \A i \in 1..Len(args.feed) :
                 C25_NoTokenOccurs(args.feed[i], tokens)
                 => ~listIncludes(C25_Ids(shown), i)
           /\ \A i \in 1..Len(shown) : shown[i].score > 0
           /\ \A i, j \in 1..Len(shown) :
                 i < j => \/ shown[i].score > shown[j].score
                          \/ /\ shown[i].score = shown[j].score
                             /\ shown[i].id < shown[j].id

\* C26: the recency bonus in the score of every entry of the related list is
\* between 0 and 10 (in units of 1/ScoreScale), whatever its date.
C26_RecencyWithinTen ==
    (args.fn = "loadSidebarData" /\ promise = "fulfilled" /\ response.kind = "ok"
       /\ "main-article" \in DOMAIN regions
       /\ "related-news-content" \in DOMAIN regions) =>
       \A k \in 1..Len(C17_Related) :
          LET a == args.feed[C17_PositionOf(C17_Related[k])]
              bonus == C17_Score(C17_PositionOf(C17_Related[k]))
                       - (IF a.topic = args.current.topic
                          THEN 500 * ScoreScale ELSE 0)
                       - 50 * ScoreScale * sharedTags(a, args.current.tags)
          IN bonus \in 0..(10 * ScoreScale)

\* C30: with both sidebars on the page, the latest list shows the first k
\* feed articles other than the current one, k the smaller of the target
\* count and the number of such articles, whatever the related list holds.
C30_Others == SelectSeq(args.feed, LAMBDA a : a.id # args.current.id)

C30_LatestIgnoresRelated ==
    (args.fn = "loadSidebarData" /\ promise = "fulfilled" /\ response.kind = "ok"
       /\ "main-article" \in DOMAIN regions
       /\ "latest-news-content" \in DOMAIN regions
       /\ "related-news-content" \in DOMAIN regions) =>
       LET k == MinOf(C17_Target, Len(C30_Others))
           shown == regions["latest-news-content"].cards
       IN /\ Len(shown) = k
          /\ \A i \in 1..k : shown[i].id = C30_Others[i].id

\* ---------------------------------------------------------- speech claims
\* C27: when speech started from one button was superseded by a click on
\* another button, then, while the utterance of that click is queued or being
\* spoken, currentUtterance and currentPlayingButton name it and its button,
\* whatever callbacks of the earlier utterances have run since; its button is
\* in the loading state until it starts and playing or paused while it is
\* spoken.
C27_Superseded ==
    LET us == synth.utterances
        n == Len(us)
    IN /\ n > 1
       /\ us[n].status \in {"pending", "speaking"}
       /\ \A i \in 1..(n - 1) : us[i].button # us[n].button

C27_TrackingSurvivesLateCallbacks ==
    LET us == synth.utterances
        n == Len(us)
    IN C27_Superseded =>
          /\ currentUtterance = n
          /\ currentPlayingButton = us[n].button
          /\ us[n].status = "pending" => ttsButtons[us[n].button] = "loading"
          /\ us[n].status = "speaking" =>
                ttsButtons[us[n].button] \in {"playing", "paused"}

\* ------------------------------------------------------ suggestion claims
\* C28: the dropdown never holds more than 5 items, and every item it holds
\* was computed by the showSuggestions call that started last.
C28_OnlyLatestCallShown ==
    /\ Len(suggestionsContainer.items) <= 5
    /\ \A k \in 1..Len(suggestionsContainer.items) :
          suggestionsContainer.items[k].call = Len(calls)

\* ------------------------------------------------------- push loop claims
\* C29: the push step makes a bounded number of attempts and, when it gets
\* past its loop, ends with 'Push failed after 5 attempts' exactly when no
\* git push succeeded; when one succeeded, the last one allowed included, it
\* ends with 'Changes pushed successfully.'
C29_Says(line) == \E k \in 1..Len(log) : log[k] = line

C29_FailureReportedIffNoPushSucceeded ==
    /\ retry_count <= max_retries
    /\ shell.pc = "ended" =>
          /\ C29_Says("::error::Push failed after 5 attempts") <=> ~shell.pushed
          /\ C29_Says("Changes pushed successfully.") <=> shell.pushed
          /\ shell.exit = (IF shell.pushed THEN "0" ELSE "1")

====
